---- MODULE Spec2Model ----
(***************************************************************************)
(* Model of the diff application engine of toolregistry_hub:               *)
(*   utils/diff_utility.py  diff_unified, _parse_unified_diff,             *)
(*                          replace_by_unified_diff, _parse_conflict_diff, *)
(*                          replace_by_conflict_diff                       *)
(*                                                                         *)
(* Text is modelled as Python models it: a str is a flat sequence of       *)
(* tokens, the token "\n" being the line terminator.  A token stands for a *)
(* run of characters without a line break ("a", "line2 changed", the tag   *)
(* characters " ", "-", "+", ...).  Splitting into lines, joining, slicing *)
(* off the tag and testing for the final terminator are computed on these  *)
(* sequences.  A file system maps a path to a file (exists, data).         *)
(***************************************************************************)
EXTENDS Integers, Sequences, FiniteSets, TLC

VARIABLES
    fs,               \* path -> [exists, data]: the host file system
    style,            \* "unified" | "conflict": which apply function is called
    diff,             \* the diff argument (a str)
    pre,              \* ghost: content of the file at path when the call started
    fs0,              \* ghost: the file system when the call started
    roundtrip,        \* ghost: the diff is computed by diff_unified(pre, modified)
    modified,         \* the modified text M of a round trip
    raised,           \* ghost: the exception raised in the call, "none" if none
    pc,               \* position of the call
    result,           \* the returned bool, "none" until the call returns
    input_file,       \* lines of the opened input file not yet read
    hunks,            \* replace_by_unified_diff: parsed hunks
    hunk_index,       \* replace_by_unified_diff: index of the current hunk (0-based)
    hunk_line_index,  \* replace_by_unified_diff: index within the current hunk
    orig_line_num,    \* replace_by_unified_diff: 1-based cursor in the original
    conflict_regions, \* replace_by_conflict_diff: regions of the parsed blocks
    region_index,     \* replace_by_conflict_diff: index of the current region
    line_index,       \* replace_by_conflict_diff: 0-based index of the file line
    other,            \* a second call running at the same time: its path and locals
    insert,           \* insert_content: arguments line, content and its locals
    todo,             \* TodoListTool: max_try_times and the locals of _todo_list
    keys,             \* APIKeyParser: api_keys and _current_key_index
    parsed,           \* what a parser called on its own returned
    router            \* DynamicRouterManager: registry, enabled_tools, app routes

vars == <<fs, fs0, style, diff, pre, roundtrip, modified, raised, pc, result, input_file, hunks, hunk_index,
          hunk_line_index, orig_line_num, conflict_regions, region_index,
          line_index, other, insert, todo, keys, parsed, router>>

-----------------------------------------------------------------------------
(* Bounds of the explored inputs *)

MaxFileLen == 3
MaxHunkLines == 3
MaxBlockLines == 2

-----------------------------------------------------------------------------
(* str primitives *)

NL == "\n"

\* index of the first line terminator of s, 0 when there is none
FirstNL(s) ==
    IF \E k \in 1..Len(s) : s[k] = NL
    THEN CHOOSE k \in 1..Len(s) : s[k] = NL /\ \A j \in 1..(k - 1) : s[j] # NL
    ELSE 0

RECURSIVE splitlines(_, _)
\* str.splitlines(keepends), also the lines a text-mode file iterates over
splitlines(s, keepends) ==
    IF s = <<>> THEN <<>>
    ELSE LET k == FirstNL(s)
         IN IF k = 0 THEN <<s>>
            ELSE <<SubSeq(s, 1, IF keepends THEN k ELSE k - 1)>>
                 \o splitlines(SubSeq(s, k + 1, Len(s)), keepends)

RECURSIVE join(_, _)
\* sep.join(parts)
join(sep, parts) ==
    IF parts = <<>> THEN <<>>
    ELSE IF Len(parts) = 1 THEN parts[1]
    ELSE parts[1] \o sep \o join(sep, Tail(parts))

RECURSIVE concat(_)
\* the concatenation of a list of str
concat(parts) == IF parts = <<>> THEN <<>> ELSE parts[1] \o concat(Tail(parts))

startswith(s, c) == Len(s) >= 1 /\ s[1] = c

endswith(s, c) == Len(s) >= 1 /\ s[Len(s)] = c

\* decimal numerals
Numerals == <<"0", "1", "2", "3", "4", "5", "6", "7", "8", "9">>

Digits == {Numerals[i] : i \in 1..Len(Numerals)}

\* str(n) / '{}'.format(n)
IntToStr(n) == Numerals[n + 1]

\* int(s)
StrToInt(s) == CHOOSE n \in 0..(Len(Numerals) - 1) : Numerals[n + 1] = s

-----------------------------------------------------------------------------
(* Line-number prefixes and the unified-diff parser *)

\* strip_line_number_prefix: a leading "<integer> | " is removed, the rest of
\* the line is kept.  The numeral is one token, the separator " | " the token "|".
strip_line_number_prefix(line) ==
    IF Len(line) >= 2 /\ line[1] \in Digits /\ line[2] = "|"
    THEN SubSeq(line, 3, Len(line))
    ELSE line

\* hunk_regex.match(line): ^@@ -(\d+)(?:,(\d+))? \+(\d+)(?:,(\d+))? @@
\* A header is the token "@@" followed by the four groups; an omitted
\* optional group (",<len>" not written) is the empty token.
hunk_regex_match(line) ==
    /\ Len(line) >= 5
    /\ line[1] = "@@"
    /\ line[2] \in Digits
    /\ line[3] \in Digits \cup {""}
    /\ line[4] \in Digits
    /\ line[5] \in Digits \cup {""}

\* faulty variant of GroupOr1: int(m.group(k)) or 1, a written 0 becomes 1
GroupOr1Falsy(g) == IF g \in {"", "0"} THEN 1 ELSE StrToInt(g)

\* int(m.group(k) or 1)
GroupOr1(g) == IF g = "" THEN 1 ELSE StrToInt(g)

\* the Hunk opened by a header line, with its lines
Hunk(header, hunk_lines) ==
    [orig_start |-> StrToInt(header[2]),
     orig_len   |-> GroupOr1(header[3]),
     new_start  |-> StrToInt(header[4]),
     new_len    |-> GroupOr1(header[5]),
     lines      |-> hunk_lines]

\* faulty variant of NextHeader: the hunk opened last takes every line left
NextHeaderNever(lines, i) == Len(lines) + 1

\* first index >= i of a line matching hunk_regex, Len(lines) + 1 if none
NextHeader(lines, i) ==
    IF \E j \in i..Len(lines) : hunk_regex_match(lines[j])
    THEN CHOOSE j \in i..Len(lines) :
            /\ hunk_regex_match(lines[j])
            /\ \A k \in i..(j - 1) : ~hunk_regex_match(lines[k])
    ELSE Len(lines) + 1

RECURSIVE ParseUnifiedFrom(_, _, _, _)
\* the while loop of _parse_unified_diff from index i (1-based here)
ParseUnifiedFrom(lines, i, hs, context) ==
    IF i > Len(lines) THEN [hunks |-> hs, context |-> context]
    ELSE IF ~hunk_regex_match(lines[i])
    THEN ParseUnifiedFrom(lines, i + 1, hs,
                          Append(context, strip_line_number_prefix(lines[i])))
    ELSE LET j == NextHeader(lines, i + 1)
             hunk_lines == [k \in 1..(j - i - 1) |->
                               strip_line_number_prefix(lines[i + k])]
         IN ParseUnifiedFrom(lines, j, Append(hs, Hunk(lines[i], hunk_lines)),
                             context)

_parse_unified_diff(d) == ParseUnifiedFrom(splitlines(d, TRUE), 1, <<>>, <<>>)

-----------------------------------------------------------------------------
(* File system *)

Path == <<"f">>

\* faulty variant of tmp_path: the output is written in place, to path itself
InPlacePath(path) == path

\* tmp_path = f"{path}.tmp"
tmp_path(path) == path \o <<".tmp">>

\* a file of the same directory that the call is not about
Other == <<"g">>

Paths ==
    {Path, tmp_path(Path), Other, tmp_path(Other), tmp_path(tmp_path(Path))}

NoFile == [exists |-> FALSE, data |-> <<>>]

File(data) == [exists |-> TRUE, data |-> data]

\* open(p, "w"): the file is created, or truncated when it exists
open_w(f, p) == [f EXCEPT ![p] = File(<<>>)]

\* output_file.write(s)
write(f, p, s) == [f EXCEPT ![p] = File(f[p].data \o s)]

\* os.replace(src, dst): dst becomes src's file, src is gone
os_replace(f, src, dst) ==
    IF src = dst THEN f
    ELSE [f EXCEPT ![dst] = f[src], ![src] = NoFile]

\* faulty variant of remove_if_exists: the temporary file is left behind
KeepTemporary(f, p) == f

\* if os.path.exists(p): os.remove(p)
remove_if_exists(f, p) == IF f[p].exists THEN [f EXCEPT ![p] = NoFile] ELSE f

-----------------------------------------------------------------------------
(* diff_unified: difflib.unified_diff(ours.splitlines(), theirs.splitlines(), *)
(* lineterm="") joined with "\n".  Indices are 0-based as in difflib; a[i] of *)
(* Python is a[i + 1] here.                                                   *)

\* SequenceMatcher.find_longest_match(alo, ahi, blo, bhi) without junk: the
\* longest block a[i:i+k] == b[j:j+k] inside the ranges; of the longest ones
\* the one starting earliest in a, then earliest in b; (alo, blo, 0) if none.
find_longest_match(a, b, alo, ahi, blo, bhi) ==
    LET IsMatch(i, j, k) ==
            /\ i + k <= ahi
            /\ j + k <= bhi
            /\ \A t \in 1..k : a[i + t] = b[j + t]
        Cands == {c \in (alo..ahi) \X (blo..bhi) \X (1..(ahi - alo)) :
                     IsMatch(c[1], c[2], c[3])}
        Better(c, e) ==
            \/ c[3] > e[3]
            \/ c[3] = e[3] /\ c[1] < e[1]
            \/ c[3] = e[3] /\ c[1] = e[1] /\ c[2] <= e[2]
    IN IF Cands = {} THEN <<alo, blo, 0>>
       ELSE CHOOSE c \in Cands : \A e \in Cands : Better(c, e)

RECURSIVE MatchingBlocksIn(_, _, _, _, _, _)
\* the match x found in a[alo:ahi], b[blo:bhi], with the blocks found to its
\* left and to its right
BlocksAround(a, b, alo, ahi, blo, bhi, x) ==
    IF x[3] = 0 THEN <<>>
    ELSE (IF alo < x[1] /\ blo < x[2]
          THEN MatchingBlocksIn(a, b, alo, x[1], blo, x[2]) ELSE <<>>)
         \o <<x>>
         \o (IF x[1] + x[3] < ahi /\ x[2] + x[3] < bhi
             THEN MatchingBlocksIn(a, b, x[1] + x[3], ahi, x[2] + x[3], bhi)
             ELSE <<>>)

\* the blocks get_matching_blocks finds in a[alo:ahi], b[blo:bhi], sorted
MatchingBlocksIn(a, b, alo, ahi, blo, bhi) ==
    BlocksAround(a, b, alo, ahi, blo, bhi,
                 find_longest_match(a, b, alo, ahi, blo, bhi))

RECURSIVE CollapseBlocks(_)
\* adjacent equal blocks are merged
CollapseBlocks(bs) ==
    IF Len(bs) <= 1 THEN bs
    ELSE IF bs[1][1] + bs[1][3] = bs[2][1] /\ bs[1][2] + bs[1][3] = bs[2][2]
    THEN CollapseBlocks(<<(<<bs[1][1], bs[1][2], bs[1][3] + bs[2][3]>>)>>
                        \o SubSeq(bs, 3, Len(bs)))
    ELSE <<bs[1]>> \o CollapseBlocks(Tail(bs))

\* SequenceMatcher.get_matching_blocks(), with the (la, lb, 0) sentinel
get_matching_blocks(a, b) ==
    Append(CollapseBlocks(MatchingBlocksIn(a, b, 0, Len(a), 0, Len(b))),
           <<Len(a), Len(b), 0>>)

\* the tag of the opcode for the gap between (i, j) and the block at (ai, bj)
GapTag(i, j, ai, bj) ==
    IF i < ai /\ j < bj THEN "replace"
    ELSE IF i < ai THEN "delete"
    ELSE IF j < bj THEN "insert"
    ELSE ""

RECURSIVE OpcodesFrom(_, _, _)
\* SequenceMatcher.get_opcodes(): <<tag, i1, i2, j1, j2>>
OpcodesFrom(blocks, i, j) ==
    IF blocks = <<>> THEN <<>>
    ELSE (IF GapTag(i, j, blocks[1][1], blocks[1][2]) # ""
          THEN <<(<<GapTag(i, j, blocks[1][1], blocks[1][2]),
                    i, blocks[1][1], j, blocks[1][2]>>)>>
          ELSE <<>>)
         \o (IF blocks[1][3] > 0
             THEN <<(<<"equal", blocks[1][1], blocks[1][1] + blocks[1][3],
                       blocks[1][2], blocks[1][2] + blocks[1][3]>>)>>
             ELSE <<>>)
         \o OpcodesFrom(Tail(blocks), blocks[1][1] + blocks[1][3],
                        blocks[1][2] + blocks[1][3])

get_opcodes(a, b) == OpcodesFrom(get_matching_blocks(a, b), 0, 0)

Max(x, y) == IF x >= y THEN x ELSE y

Min(x, y) == IF x <= y THEN x ELSE y

\* number of context lines of unified_diff (difflib's default n)
ContextN == 3

\* no opcodes: a single empty-looking equal opcode stands in
OrDummy(codes) == IF codes = <<>> THEN <<(<<"equal", 0, 1, 0, 1>>)>> ELSE codes

\* a leading equal opcode is cut to its last n lines
TrimFirst(codes, n) ==
    IF codes[1][1] = "equal"
    THEN <<(<<"equal", Max(codes[1][2], codes[1][3] - n), codes[1][3],
              Max(codes[1][4], codes[1][5] - n), codes[1][5]>>)>> \o Tail(codes)
    ELSE codes

\* a trailing equal opcode is cut to its first n lines
TrimLast(codes, n) ==
    IF codes[Len(codes)][1] = "equal"
    THEN SubSeq(codes, 1, Len(codes) - 1)
         \o <<(<<"equal", codes[Len(codes)][2],
                 Min(codes[Len(codes)][3], codes[Len(codes)][2] + n),
                 codes[Len(codes)][4],
                 Min(codes[Len(codes)][5], codes[Len(codes)][4] + n)>>)>>
    ELSE codes

\* a group that is a single equal opcode is not yielded
YieldGroup(group) ==
    IF Len(group) = 1 /\ group[1][1] = "equal" THEN <<>> ELSE <<group>>

\* SequenceMatcher.get_grouped_opcodes(n): the leading and the trailing equal
\* block are cut to n lines.  An inner equal block longer than 2n lines would
\* split the group; no text within the bounds has one, so there is at most one
\* group, and none when the only opcode left is an equal one.
get_grouped_opcodes(a, b, n) ==
    YieldGroup(TrimLast(TrimFirst(OrDummy(get_opcodes(a, b)), n), n))

\* _format_range_unified(start, stop): the two groups of one side of a header
_format_range_unified(start, stop) ==
    LET beginning == start + 1
        length == stop - start
    IN IF length = 1 THEN <<IntToStr(beginning), "">>
       ELSE IF length = 0 THEN <<IntToStr(beginning - 1), IntToStr(length)>>
       ELSE <<IntToStr(beginning), IntToStr(length)>>

\* the lines a[i1:i2] (0-based, half-open) with the tag put in front
Tagged(tag, a, i1, i2) == [k \in 1..(i2 - i1) |-> <<tag>> \o a[i1 + k]]

\* the lines unified_diff yields for one opcode
OpcodeLines(a, b, op) ==
    IF op[1] = "equal" THEN Tagged(" ", a, op[2], op[3])
    ELSE (IF op[1] \in {"replace", "delete"}
          THEN Tagged("-", a, op[2], op[3]) ELSE <<>>)
         \o (IF op[1] \in {"replace", "insert"}
             THEN Tagged("+", b, op[4], op[5]) ELSE <<>>)

RECURSIVE GroupLines(_, _, _)
GroupLines(a, b, group) ==
    IF group = <<>> THEN <<>>
    ELSE OpcodeLines(a, b, group[1]) \o GroupLines(a, b, Tail(group))

\* the hunk header and the lines of one group
GroupText(a, b, group) ==
    <<(<<"@@">> \o _format_range_unified(group[1][2], group[Len(group)][3])
               \o _format_range_unified(group[1][4], group[Len(group)][5]))>>
    \o GroupLines(a, b, group)

\* the lines of all groups, after the file header "--- ", "+++ " (the first
\* character of each kept as a token of its own)
GroupsText(a, b, groups) ==
    IF groups = <<>> THEN <<>>
    ELSE <<(<<"-", "-- ">>), (<<"+", "++ ">>)>> \o GroupText(a, b, groups[1])

\* difflib.unified_diff(a, b, lineterm="")
unified_diff(a, b) == GroupsText(a, b, get_grouped_opcodes(a, b, ContextN))

diff_unified(ours, theirs) ==
    join(<<NL>>, unified_diff(splitlines(ours, FALSE), splitlines(theirs, FALSE)))

-----------------------------------------------------------------------------
(* replace_by_unified_diff *)

\* hunk = hunks[hunk_index] if the index is in range, None otherwise
\* (hunk_index is 0-based; HasHunk is the truth value of `hunk`)
HasHunk == hunk_index < Len(hunks)

hunk == hunks[hunk_index + 1]

\* orig_line_num >= hunk.orig_start and orig_line_num < orig_start + orig_len
InHunkRange(h, n) == n >= h.orig_start /\ n < h.orig_start + h.orig_len

\* the condition under which the line read is matched against the hunk
HunkApplies ==
    /\ HasHunk
    /\ InHunkRange(hunk, orig_line_num)
    /\ hunk_line_index < Len(hunk.lines)

\* the hunk line consulted: hunk.lines[hunk_line_index]
hunk_line == hunk.lines[hunk_line_index + 1]

\* faulty variant of ContextOutput: the context text of the diff is written instead of
\* the line read from the file
ContextOutputFromDiff(line, hl) == Tail(hl)

\* what the context branch writes for the line read
ContextOutput(line, hl) == line

\* new_line = hunk_line[1:], terminated when it is not
AddedLine(hl) ==
    LET new_line == Tail(hl)
    IN IF endswith(new_line, NL) THEN new_line ELSE new_line \o <<NL>>

\* faulty variant of Branch: a line is deleted only when the text of the '-'
\* line is the line read
BranchComparing ==
    IF ~HunkApplies THEN "copy"
    ELSE IF startswith(hunk_line, " ") THEN "context"
    ELSE IF startswith(hunk_line, "-")
         THEN IF Tail(hunk_line) = Head(input_file) THEN "delete" ELSE "copy"
    ELSE IF startswith(hunk_line, "+") THEN "add"
    ELSE "invalid"

\* the branch the loop body takes for the line read
Branch ==
    IF ~HunkApplies THEN "copy"
    ELSE IF startswith(hunk_line, " ") THEN "context"
    ELSE IF startswith(hunk_line, "-") THEN "delete"
    ELSE IF startswith(hunk_line, "+") THEN "add"
    ELSE "invalid"

\* "Check if we've finished current hunk": with the hunk line index hli reached,
\* the hunk pointer moves on and the line index restarts when a hunk is left
FinishHunk(hli) ==
    IF HasHunk /\ hli >= Len(hunk.lines)
    THEN /\ hunk_index' = hunk_index + 1
         /\ hunk_line_index' = IF hunk_index + 1 < Len(hunks) THEN 0 ELSE hli
    ELSE /\ hunk_index' = hunk_index
         /\ hunk_line_index' = hli

\* what no step of a call changes
CallInputs ==
    <<style, pre, fs0, roundtrip, modified, other, insert, todo, keys, parsed, router>>

ConflictLocalsUnchanged == UNCHANGED <<conflict_regions, region_index, line_index>>

UnifiedLocalsUnchanged ==
    UNCHANGED <<hunks, hunk_index, hunk_line_index, orig_line_num>>

\* the call up to the with statement: the diff is parsed, the cursors are set,
\* path is opened for reading and path.tmp is created (or truncated)
UCall ==
    /\ pc = "call"
    /\ style = "unified"
    /\ hunks' = _parse_unified_diff(diff).hunks
    /\ hunk_index' = 0
    /\ orig_line_num' = 1
    /\ hunk_line_index' = 0
    /\ IF fs[Path].exists
       THEN /\ input_file' = splitlines(fs[Path].data, TRUE)
            /\ fs' = open_w(fs, tmp_path(Path))
            /\ pc' = "loop"
            /\ raised' = raised
       ELSE /\ pc' = "except"
            /\ raised' = "open"
            /\ UNCHANGED <<fs, input_file>>
    /\ UNCHANGED <<diff, result>>
    /\ ConflictLocalsUnchanged
    /\ UNCHANGED CallInputs

\* one iteration of `for line in input_file` in which a line is written
UStepWrite ==
    /\ pc = "loop"
    /\ style = "unified"
    /\ input_file # <<>>
    /\ Branch \in {"copy", "context", "add"}
    /\ LET line == Head(input_file)
       IN /\ input_file' = Tail(input_file)
          /\ IF Branch = "add"
             THEN /\ fs' = write(fs, tmp_path(Path), AddedLine(hunk_line))
                  /\ hunk_line_index' = hunk_line_index + 1
                  /\ UNCHANGED <<orig_line_num, hunk_index>>
             ELSE /\ fs' = write(fs, tmp_path(Path),
                                 IF Branch = "context"
                                 THEN ContextOutput(line, hunk_line) ELSE line)
                  /\ orig_line_num' = orig_line_num + 1
                  /\ FinishHunk(IF Branch = "context"
                                THEN hunk_line_index + 1 ELSE hunk_line_index)
    /\ UNCHANGED <<diff, pc, result, hunks>>
    /\ ConflictLocalsUnchanged
    /\ UNCHANGED raised
    /\ UNCHANGED CallInputs

\* one iteration in which the line read is deleted: nothing is written
UStepDelete ==
    /\ pc = "loop"
    /\ style = "unified"
    /\ input_file # <<>>
    /\ Branch = "delete"
    /\ input_file' = Tail(input_file)
    /\ hunk_line_index' = hunk_line_index + 1
    /\ UNCHANGED <<fs, diff, pc, result, hunks, hunk_index,
                   orig_line_num>>
    /\ ConflictLocalsUnchanged
    /\ UNCHANGED raised
    /\ UNCHANGED CallInputs

\* raise ValueError("Invalid diff line"): the with statement closes both files
UStepInvalid ==
    /\ pc = "loop"
    /\ style = "unified"
    /\ input_file # <<>>
    /\ Branch = "invalid"
    /\ input_file' = Tail(input_file)
    /\ pc' = "except"
    /\ UNCHANGED <<fs, diff, result, hunks, hunk_index,
                   hunk_line_index, orig_line_num>>
    /\ ConflictLocalsUnchanged
    /\ raised' = "invalid"
    /\ UNCHANGED CallInputs

\* an OSError of output_file.write, or of the flush when the file is closed
\* at the end of the with statement
UWriteFail ==
    /\ pc = "loop"
    /\ style = "unified"
    /\ IF input_file = <<>> THEN TRUE
       ELSE Branch \in {"copy", "context", "add"}
    /\ pc' = "except"
    /\ UNCHANGED <<fs, diff, result, input_file, hunks, hunk_index,
                   hunk_line_index, orig_line_num>>
    /\ ConflictLocalsUnchanged
    /\ raised' = "write"
    /\ UNCHANGED CallInputs

\* the input is exhausted: both files are closed
ULoopEnd ==
    /\ pc = "loop"
    /\ style = "unified"
    /\ input_file = <<>>
    /\ pc' = "replace"
    /\ UNCHANGED <<fs, diff, result, input_file, hunks, hunk_index,
                   hunk_line_index, orig_line_num>>
    /\ ConflictLocalsUnchanged
    /\ UNCHANGED raised
    /\ UNCHANGED CallInputs

\* os.replace(tmp_path, path); return True
UReplace ==
    /\ pc = "replace"
    /\ style = "unified"
    /\ fs' = os_replace(fs, tmp_path(Path), Path)
    /\ result' = "true"
    /\ pc' = "done"
    /\ UNCHANGED <<diff, input_file>>
    /\ UnifiedLocalsUnchanged
    /\ ConflictLocalsUnchanged
    /\ UNCHANGED raised
    /\ UNCHANGED CallInputs

\* os.replace raises OSError
UReplaceFail ==
    /\ pc = "replace"
    /\ style = "unified"
    /\ pc' = "except"
    /\ UNCHANGED <<fs, diff, result, input_file>>
    /\ UnifiedLocalsUnchanged
    /\ ConflictLocalsUnchanged
    /\ raised' = "replace"
    /\ UNCHANGED CallInputs

\* except Exception: the temporary file is removed when it exists; return False
UExcept ==
    /\ pc = "except"
    /\ style = "unified"
    /\ fs' = remove_if_exists(fs, tmp_path(Path))
    /\ result' = "false"
    /\ pc' = "done"
    /\ UNCHANGED <<diff, input_file>>
    /\ UnifiedLocalsUnchanged
    /\ ConflictLocalsUnchanged
    /\ UNCHANGED raised
    /\ UNCHANGED CallInputs

-----------------------------------------------------------------------------
(* _parse_conflict_diff *)

\* a line without its terminator: what `$` and `.` of a pattern see
Body(line) == IF endswith(line, NL) THEN SubSeq(line, 1, Len(line) - 1) ELSE line

\* start_re.match(line): ^<<<<<<< (.+)$
start_re_match(line) == Len(Body(line)) >= 2 /\ line[1] = "<<<<<<< "

\* sep_re.match(line): ^=======$
sep_re_match(line) == Body(line) = <<"=======">>

\* end_re.match(line): ^>>>>>>> (.+)$
end_re_match(line) == Len(Body(line)) >= 2 /\ line[1] = ">>>>>>> "

\* faulty variant of ScanToSep: the incoming section runs to the last
\* separator line
ScanToLastSep(lines, i) ==
    IF \E j \in i..Len(lines) : sep_re_match(lines[j])
    THEN CHOOSE j \in i..Len(lines) :
            sep_re_match(lines[j]) /\ \A k \in (j + 1)..Len(lines) : ~sep_re_match(lines[k])
    ELSE Len(lines) + 1

\* first index >= i of a separator line, Len(lines) + 1 if none: where
\* `while i < len(lines) and not sep_re.match(lines[i])` stops
ScanToSep(lines, i) ==
    IF \E j \in i..Len(lines) : sep_re_match(lines[j])
    THEN CHOOSE j \in i..Len(lines) :
            sep_re_match(lines[j]) /\ \A k \in i..(j - 1) : ~sep_re_match(lines[k])
    ELSE Len(lines) + 1

\* faulty variant of ScanToEnd: without a closing marker the block is taken to
\* end with the last line of the diff
ScanToEndOrLast(lines, i) ==
    IF \E j \in i..Len(lines) : end_re_match(lines[j])
    THEN CHOOSE j \in i..Len(lines) :
            end_re_match(lines[j]) /\ \A k \in i..(j - 1) : ~end_re_match(lines[k])
    ELSE Len(lines)

\* faulty variant of ScanToEnd: without a closing marker the block is closed
\* at its separator, with no current lines
ScanToEndOrSeparator(lines, i) ==
    IF \E j \in i..Len(lines) : end_re_match(lines[j])
    THEN CHOOSE j \in i..Len(lines) :
            end_re_match(lines[j]) /\ \A k \in i..(j - 1) : ~end_re_match(lines[k])
    ELSE i - 1

\* the same for a closing marker and end_re
ScanToEnd(lines, i) ==
    IF \E j \in i..Len(lines) : end_re_match(lines[j])
    THEN CHOOSE j \in i..Len(lines) :
            end_re_match(lines[j]) /\ \A k \in i..(j - 1) : ~end_re_match(lines[k])
    ELSE Len(lines) + 1

ConflictBlock(lines, i, s, e) ==
    [incoming_marker |-> Body(lines[i]),
     incoming_lines  |-> [k \in 1..(s - i - 1) |->
                             strip_line_number_prefix(lines[i + k])],
     separator       |-> lines[s],
     current_lines   |-> [k \in 1..(e - s - 1) |->
                             strip_line_number_prefix(lines[s + k])],
     end_marker      |-> lines[e]]

RECURSIVE ParseConflictFrom(_, _, _)
\* the while loop of _parse_conflict_diff from index i (1-based here)
ParseConflictFrom(lines, i, blocks) ==
    IF i > Len(lines) THEN blocks
    ELSE IF ~start_re_match(lines[i]) THEN ParseConflictFrom(lines, i + 1, blocks)
    ELSE LET s == ScanToSep(lines, i + 1)
         IN IF s > Len(lines) THEN blocks
            ELSE LET e == ScanToEnd(lines, s + 1)
                 IN IF e > Len(lines) THEN blocks
                    ELSE ParseConflictFrom(lines, e + 1,
                             Append(blocks, ConflictBlock(lines, i, s, e)))

_parse_conflict_diff(d) == ParseConflictFrom(splitlines(d, TRUE), 1, <<>>)

-----------------------------------------------------------------------------
(* replace_by_conflict_diff *)

RECURSIVE RegionsFrom(_, _)
\* the loop that lays the blocks' incoming regions out from current_pos
RegionsFrom(blocks, current_pos) ==
    IF blocks = <<>> THEN <<>>
    ELSE LET incoming_start == current_pos
             incoming_end == current_pos + Len(blocks[1].incoming_lines)
         IN <<[incoming_start |-> incoming_start,
               incoming_end   |-> incoming_end,
               current_lines  |-> blocks[1].current_lines,
               block          |-> blocks[1]]>>
            \o RegionsFrom(Tail(blocks), incoming_end)

ConflictRegions(blocks) == RegionsFrom(blocks, 0)

\* current_region = conflict_regions[region_index] while the index is in range
HasRegion == region_index < Len(conflict_regions)

current_region == conflict_regions[region_index + 1]

\* incoming_start <= line_index < incoming_end
InRegion ==
    /\ HasRegion
    /\ current_region.incoming_start <= line_index
    /\ line_index < current_region.incoming_end

\* the region's end is reached with the line read
RegionEnds == InRegion /\ line_index + 1 >= current_region.incoming_end

\* faulty variant of ConflictOutput: a file line inside a region is kept
ConflictOutputKeepingLine(line) ==
    IF ~InRegion THEN line
    ELSE IF RegionEnds THEN line \o concat(current_region.current_lines)
    ELSE line

\* what one iteration of the loop writes for the line read
ConflictOutput(line) ==
    IF ~InRegion THEN line
    ELSE IF RegionEnds THEN concat(current_region.current_lines)
    ELSE <<>>

\* the diff has no complete block: return True, nothing is opened
CCallNoBlocks ==
    /\ pc = "call"
    /\ style = "conflict"
    /\ _parse_conflict_diff(diff) = <<>>
    /\ result' = "true"
    /\ pc' = "done"
    /\ UNCHANGED <<fs, diff, input_file, conflict_regions,
                   region_index, line_index>>
    /\ UnifiedLocalsUnchanged
    /\ UNCHANGED raised
    /\ UNCHANGED CallInputs

\* the call up to the loop: regions are computed, path is opened for reading
\* and path.tmp is created (or truncated)
CCall ==
    /\ pc = "call"
    /\ style = "conflict"
    /\ _parse_conflict_diff(diff) # <<>>
    /\ conflict_regions' = ConflictRegions(_parse_conflict_diff(diff))
    /\ line_index' = 0
    /\ region_index' = 0
    /\ IF fs[Path].exists
       THEN /\ input_file' = splitlines(fs[Path].data, TRUE)
            /\ fs' = open_w(fs, tmp_path(Path))
            /\ pc' = "loop"
            /\ raised' = raised
       ELSE /\ pc' = "except"
            /\ raised' = "open"
            /\ UNCHANGED <<fs, input_file>>
    /\ UNCHANGED <<diff, result>>
    /\ UnifiedLocalsUnchanged
    /\ UNCHANGED CallInputs

\* one iteration of `for line in input_file`
CStep ==
    /\ pc = "loop"
    /\ style = "conflict"
    /\ input_file # <<>>
    /\ input_file' = Tail(input_file)
    /\ fs' = write(fs, tmp_path(Path), ConflictOutput(Head(input_file)))
    /\ line_index' = line_index + 1
    /\ region_index' = IF RegionEnds THEN region_index + 1 ELSE region_index
    /\ UNCHANGED <<diff, pc, result, conflict_regions>>
    /\ UnifiedLocalsUnchanged
    /\ UNCHANGED raised
    /\ UNCHANGED CallInputs

\* an OSError of output_file.write, or of the flush when the file is closed
CWriteFail ==
    /\ pc = "loop"
    /\ style = "conflict"
    /\ IF input_file = <<>> THEN TRUE
       ELSE ConflictOutput(Head(input_file)) # <<>>
    /\ pc' = "except"
    /\ UNCHANGED <<fs, diff, result, input_file, conflict_regions,
                   region_index, line_index>>
    /\ UnifiedLocalsUnchanged
    /\ raised' = "write"
    /\ UNCHANGED CallInputs

\* the input is exhausted: both files are closed
CLoopEnd ==
    /\ pc = "loop"
    /\ style = "conflict"
    /\ input_file = <<>>
    /\ pc' = "replace"
    /\ UNCHANGED <<fs, diff, result, input_file, conflict_regions,
                   region_index, line_index>>
    /\ UnifiedLocalsUnchanged
    /\ UNCHANGED raised
    /\ UNCHANGED CallInputs

\* os.replace(tmp_path, path); return True
CReplace ==
    /\ pc = "replace"
    /\ style = "conflict"
    /\ fs' = os_replace(fs, tmp_path(Path), Path)
    /\ result' = "true"
    /\ pc' = "done"
    /\ UNCHANGED <<diff, input_file>>
    /\ UnifiedLocalsUnchanged
    /\ ConflictLocalsUnchanged
    /\ UNCHANGED raised
    /\ UNCHANGED CallInputs

\* os.replace raises OSError
CReplaceFail ==
    /\ pc = "replace"
    /\ style = "conflict"
    /\ pc' = "except"
    /\ UNCHANGED <<fs, diff, result, input_file>>
    /\ UnifiedLocalsUnchanged
    /\ ConflictLocalsUnchanged
    /\ raised' = "replace"
    /\ UNCHANGED CallInputs

\* except Exception: the temporary file is removed when it exists; return False
CExcept ==
    /\ pc = "except"
    /\ style = "conflict"
    /\ fs' = remove_if_exists(fs, tmp_path(Path))
    /\ result' = "false"
    /\ pc' = "done"
    /\ UNCHANGED <<diff, input_file>>
    /\ UnifiedLocalsUnchanged
    /\ ConflictLocalsUnchanged
    /\ UNCHANGED raised
    /\ UNCHANGED CallInputs

-----------------------------------------------------------------------------
(* The calls explored: file contents and diffs *)

\* a text: the lines (one token each) with their terminators
Text(ls) == concat([i \in 1..Len(ls) |-> <<ls[i], NL>>])

\* all sequences over S of length at most n
SeqsUpTo(S, n) == UNION {[1..k -> S] : k \in 0..n}

\* files of pairwise different lines, by length
LineNames == <<"a", "b", "c", "d", "e", "f">>

DistinctLines(n) == [i \in 1..n |-> LineNames[i]]

\* lines over a two-letter alphabet
ABLines == SeqsUpTo({"a", "b"}, MaxFileLen)

\* the tag of a hunk line; "?" stands for a line that starts with no tag
Tags == {" ", "-", "+", "?"}

\* a hunk header as written by diff tools: '@@ -s[,l] +s[,l] @@'
Header(start, len) == <<"@@", IntToStr(start), len, IntToStr(start), len, NL>>

\* a written length: omitted, or a numeral
LenTokens == {""} \cup {IntToStr(n) : n \in 0..MaxFileLen}

\* The lines of a hunk with the tags ts placed at start in the file lines F.
\* A context or deletion line carries the text of the file line it stands for
\* when matching, and a text that is not in the file otherwise.
HunkLines(F, start, ts, matching, added) ==
    [i \in 1..Len(ts) |->
        LET k == start + Cardinality({j \in 1..(i - 1) : ts[j] \in {" ", "-"}})
        IN IF ts[i] = "?" THEN <<"oops", NL>>
           ELSE IF ts[i] = "+" THEN <<"+", added, NL>>
           ELSE IF matching /\ k \in 1..Len(F) THEN <<ts[i], F[k], NL>>
           ELSE <<ts[i], "z", NL>>]

\* number of original lines a hunk with tags ts covers
OrigCount(ts) == Cardinality({j \in 1..Len(ts) : ts[j] \in {" ", "-"}})

\* diffs of one hunk: any start, any written length, any tags
OneHunkCalls ==
    {[style |-> "unified",
      content |-> Text(DistinctLines(n)),
      diff |-> Header(start, len)
               \o concat(HunkLines(DistinctLines(n), start, ts, m, "x"))] :
        n \in 0..MaxFileLen, start \in 1..MaxFileLen, len \in LenTokens,
        ts \in SeqsUpTo(Tags, MaxHunkLines), m \in BOOLEAN}

\* diffs of two hunks whose headers state the lines they cover
TwoHunkCalls ==
    {[style |-> "unified",
      content |-> Text(DistinctLines(n)),
      diff |-> Header(s1, IntToStr(OrigCount(ts[1])))
               \o concat(HunkLines(DistinctLines(n), s1, ts[1], TRUE, "x"))
               \o Header(s2, IntToStr(OrigCount(ts[2])))
               \o concat(HunkLines(DistinctLines(n), s2, ts[2], TRUE, "y"))] :
        n \in 0..MaxFileLen, s1 \in 1..MaxFileLen, s2 \in 1..MaxFileLen,
        ts \in {p \in SeqsUpTo({" ", "-", "+"}, MaxHunkLines)
                      \X SeqsUpTo({" ", "-", "+"}, MaxHunkLines) :
                   Len(p[1]) + Len(p[2]) <= MaxHunkLines}}

\* the diff diff_unified computes between an original and a modified text
RoundTripCalls ==
    {[style |-> "unified", content |-> Text(o), modified |-> Text(m)] :
        o \in ABLines, m \in ABLines}

\* a conflict block as written: markers, SEARCH lines, separator, REPLACE lines
BlockText(incoming, current) ==
    <<"<<<<<<< ", "SEARCH", NL>> \o Text(incoming) \o <<"=======", NL>>
    \o Text(current) \o <<">>>>>>> ", "REPLACE", NL>>

\* conflict diffs of one block and of two blocks
OneBlockCalls ==
    {[style |-> "conflict",
      content |-> Text(f),
      diff |-> BlockText(inc, cur)] :
        f \in ABLines, inc \in SeqsUpTo({"a", "b"}, MaxBlockLines),
        cur \in SeqsUpTo({"x"}, MaxBlockLines)}

TwoBlockCalls ==
    {[style |-> "conflict",
      content |-> Text(f),
      diff |-> BlockText(inc1, cur) \o BlockText(inc2, <<"y">>)] :
        f \in ABLines, inc1 \in SeqsUpTo({"a", "b"}, MaxBlockLines),
        inc2 \in SeqsUpTo({"a", "b"}, MaxBlockLines),
        cur \in SeqsUpTo({"x"}, MaxBlockLines)}

\* conflict diffs without a complete block: no marker, a block cut short
NoBlockCalls ==
    {[style |-> "conflict", content |-> Text(f), diff |-> d] :
        f \in ABLines,
        d \in {<<>>, Text(<<"a">>), <<"<<<<<<< ", "SEARCH", NL, "a", NL>>,
               <<"<<<<<<< ", "SEARCH", NL, "a", NL, "=======", NL, "x", NL>>}}

\* the scenario of the docstring of replace_by_unified_diff and of
\* TestFileOps.test_apply_diff_unified
ScenarioUnifiedFile == Text(<<"line1", "line2", "line3">>)

ScenarioUnifiedDiff ==
    <<"-", "-- a/test.txt", NL, "+", "++ b/test.txt", NL,
      "@@", "1", "3", "1", "3", NL,
      " ", "line1", NL, "-", "line2", NL, "+", "line2 changed", NL,
      " ", "line3">>

\* the scenario of the docstring of replace_by_conflict_diff: the file holds
\* the conflict block itself
ScenarioConflictText ==
    <<"<<<<<<< ", "HEAD", NL>> \o Text(<<"line1", "line2">>) \o <<"=======", NL>>
    \o Text(<<"line1", "line2 changed">>) \o <<">>>>>>> ", "incoming", NL>>

ScenarioCalls ==
    {[style |-> "unified", content |-> ScenarioUnifiedFile,
      diff |-> ScenarioUnifiedDiff],
     [style |-> "conflict", content |-> ScenarioConflictText,
      diff |-> ScenarioConflictText]}

-----------------------------------------------------------------------------
(* The state machine *)

\* no second call is running
NoOtherCall == [path |-> <<>>, pc |-> "idle", input_file |-> <<>>, result |-> "none"]

\* TodoListTool and APIKeyParser are not in use
NoTodo ==
    [max_try_times |-> 0, attempt |-> 0, last_error |-> <<>>,
     last_result |-> <<>>, prompts |-> <<>>, responses |-> <<>>,
     pc |-> "idle", out |-> <<>>]

\* no parser has been called on its own
\* the tool ids the route discovery can produce
ToolIds == {"calc", "time", "web"}

\* a tool of the registry: not a key of tool_registry.tools, or a key whose
\* ToolConfig has enabled True ("on") or False ("off")
NoTools == [t \in ToolIds |-> "absent"]

\* the manager after __init__: empty registry, no enabled tool, no config file
NoRouter ==
    [pc |-> "new", tools |-> NoTools, enabled_tools |-> {}, app_routes |-> {},
     config |-> [kind |-> "none", tools |-> NoTools],
     call |-> "none", tool_id |-> "none", returned |-> "none"]

NoParsed == [hunks |-> <<>>, context |-> <<>>, blocks |-> <<>>]

NoKeys == [api_keys |-> <<>>, _current_key_index |-> 0, returned |-> <<>>]

\* the locals before a call that starts in the file system f0
InitLocals(f0) ==
    /\ todo = NoTodo
    /\ keys = NoKeys
    /\ parsed = NoParsed
    /\ router = NoRouter
    /\ fs = f0
    /\ fs0 = f0
    /\ pre = f0[Path].data
    /\ result = "none"
    /\ raised = "none"
    /\ input_file = <<>>
    /\ hunks = <<>>
    /\ hunk_index = 0
    /\ hunk_line_index = 0
    /\ orig_line_num = 1
    /\ conflict_regions = <<>>
    /\ region_index = 0
    /\ line_index = 0

\* no call of insert_content
NoInsert ==
    [line |-> 0, content |-> <<>>, inserted |-> FALSE, line_count |-> 0,
     i |-> 0, new_line_count |-> 0]

\* a call that runs alone
InitIn(f0) ==
    /\ other = NoOtherCall
    /\ insert = NoInsert
    /\ InitLocals(f0)

\* the usual surroundings: the file at path holds content, there is no file
\* at path.tmp, and another file lies next to it
DefaultFS(content) ==
    [p \in Paths |-> IF p = Path THEN File(content)
                     ELSE IF p = Other THEN File(<<"o", NL>>)
                     ELSE NoFile]

InitFile(content) == InitIn(DefaultFS(content))

\* the surroundings in which path is missing or path.tmp exists already
Surroundings(content) ==
    {[p \in Paths |-> IF p = Path THEN IF here THEN File(content) ELSE NoFile
                      ELSE IF p = Other THEN File(<<"o", NL>>)
                      ELSE IF p = tmp_path(Path) /\ stale THEN File(<<"t", NL>>)
                      ELSE NoFile] :
        here \in BOOLEAN, stale \in BOOLEAN} \ {DefaultFS(content)}

\* the calls made in those surroundings: the diffs for a file of two lines
SurroundedCalls ==
    {c \in OneHunkCalls : c.content = Text(DistinctLines(2))}
    \cup {c \in OneBlockCalls \cup NoBlockCalls : c.content = Text(<<"a", "b">>)}

\* a call whose diff is written by the caller
StartCall(c) ==
    /\ InitFile(c.content)
    /\ style = c.style
    /\ diff = c.diff
    /\ roundtrip = FALSE
    /\ modified = <<>>
    /\ pc = "call"

Init ==
    \/ \E c \in OneHunkCalls : StartCall(c)
    \/ \E c \in TwoHunkCalls : StartCall(c)
    \/ \E c \in OneBlockCalls : StartCall(c)
    \/ \E c \in TwoBlockCalls : StartCall(c)
    \/ \E c \in NoBlockCalls : StartCall(c)
    \/ \E c \in ScenarioCalls : StartCall(c)
    \/ \E c \in SurroundedCalls : \E f0 \in Surroundings(c.content) :
        /\ InitIn(f0)
        /\ style = c.style
        /\ diff = c.diff
        /\ roundtrip = FALSE
        /\ modified = <<>>
        /\ pc = "call"
    \/ \E c \in RoundTripCalls :
        /\ InitFile(c.content)
        /\ style = c.style
        /\ diff = <<>>
        /\ roundtrip = TRUE
        /\ modified = c.modified
        /\ pc = "diff"

\* the caller computes the diff of a round trip: diff_unified(O, M)
DiffUnified ==
    /\ pc = "diff"
    /\ diff' = diff_unified(pre, modified)
    /\ pc' = "call"
    /\ UNCHANGED <<fs, result, raised, input_file>>
    /\ UNCHANGED CallInputs
    /\ UnifiedLocalsUnchanged
    /\ ConflictLocalsUnchanged

Next ==
    \/ DiffUnified
    \/ UCall
    \/ UStepWrite
    \/ UStepDelete
    \/ UStepInvalid
    \/ UWriteFail
    \/ ULoopEnd
    \/ UReplace
    \/ UReplaceFail
    \/ UExcept
    \/ CCallNoBlocks
    \/ CCall
    \/ CStep
    \/ CWriteFail
    \/ CLoopEnd
    \/ CReplace
    \/ CReplaceFail
    \/ CExcept

Spec == Init /\ [][Next]_vars

-----------------------------------------------------------------------------
(* Two calls at the same time.  The second call is                          *)
(* replace_by_unified_diff(other.path, "") on another path: a diff without  *)
(* hunks, for which every line read is copied.  Its steps are those of the  *)
(* code: the two opens, one write per line, os.replace, the cleanup.        *)

\* the second call leaves the first call's arguments and locals alone
FirstCallUnchanged ==
    /\ UNCHANGED <<style, pre, fs0, roundtrip, modified, diff, raised, pc,
                   result, input_file, insert, todo, keys, parsed, router>>
    /\ UnifiedLocalsUnchanged
    /\ ConflictLocalsUnchanged

\* open(path) for reading, then open(tmp_path, "w")
OtherCall ==
    /\ other.pc = "call"
    /\ IF fs[other.path].exists
       THEN /\ other' = [other EXCEPT !.pc = "loop",
                             !.input_file = splitlines(fs[other.path].data, TRUE)]
            /\ fs' = open_w(fs, tmp_path(other.path))
       ELSE /\ other' = [other EXCEPT !.pc = "except"]
            /\ fs' = fs
    /\ FirstCallUnchanged

\* one iteration of `for line in input_file`: no hunk, the line is copied
OtherStep ==
    /\ other.pc = "loop"
    /\ other.input_file # <<>>
    /\ fs' = write(fs, tmp_path(other.path), Head(other.input_file))
    /\ other' = [other EXCEPT !.input_file = Tail(other.input_file)]
    /\ FirstCallUnchanged

\* the input is exhausted, both files are closed
OtherLoopEnd ==
    /\ other.pc = "loop"
    /\ other.input_file = <<>>
    /\ other' = [other EXCEPT !.pc = "replace"]
    /\ UNCHANGED fs
    /\ FirstCallUnchanged

\* os.replace(tmp_path, path); return True.  It raises when the temporary
\* file is not there any more.
OtherReplace ==
    /\ other.pc = "replace"
    /\ IF fs[tmp_path(other.path)].exists
       THEN /\ fs' = os_replace(fs, tmp_path(other.path), other.path)
            /\ other' = [other EXCEPT !.pc = "done", !.result = "true"]
       ELSE /\ fs' = fs
            /\ other' = [other EXCEPT !.pc = "except"]
    /\ FirstCallUnchanged

\* except Exception: remove the temporary file if it exists, return False
OtherExcept ==
    /\ other.pc = "except"
    /\ fs' = remove_if_exists(fs, tmp_path(other.path))
    /\ other' = [other EXCEPT !.pc = "done", !.result = "false"]
    /\ FirstCallUnchanged

\* the paths of the second call: an unrelated name, and the name path.tmp
OtherPaths == {Other, tmp_path(Path)}

\* the files before two calls: one at path, one at the second call's path
TwoFiles(content, q) ==
    [p \in Paths |-> IF p = Path THEN File(content)
                     ELSE IF p = Other THEN File(<<"o", NL>>)
                     ELSE IF p = q THEN File(<<"t", NL>>)
                     ELSE NoFile]

InitConcurrent ==
    \/ \E c \in SurroundedCalls : \E q \in OtherPaths :
        /\ InitLocals(TwoFiles(c.content, q))
        /\ other = [NoOtherCall EXCEPT !.path = q, !.pc = "call"]
        /\ insert = NoInsert
        /\ style = c.style
        /\ diff = c.diff
        /\ roundtrip = FALSE
        /\ modified = <<>>
        /\ pc = "call"
    \/ \E c \in RoundTripCalls : \E q \in OtherPaths :
        /\ Len(c.content) + Len(c.modified) <= 4
        /\ InitLocals(TwoFiles(c.content, q))
        /\ other = [NoOtherCall EXCEPT !.path = q, !.pc = "call"]
        /\ insert = NoInsert
        /\ style = c.style
        /\ diff = <<>>
        /\ roundtrip = TRUE
        /\ modified = c.modified
        /\ pc = "diff"

NextConcurrent ==
    \/ Next
    \/ OtherCall
    \/ OtherStep
    \/ OtherLoopEnd
    \/ OtherReplace
    \/ OtherExcept

SpecConcurrent == InitConcurrent /\ [][NextConcurrent]_vars

-----------------------------------------------------------------------------
(* UnifiedFileTools.insert_content(path, line, content) *)

\* content.count("\n")
CountNL(s) == Cardinality({k \in 1..Len(s) : s[k] = NL})

\* content.count("\n") + (1 if not content.endswith("\n") else 0)
ContentLineCount(content) ==
    CountNL(content) + (IF endswith(content, NL) THEN 0 ELSE 1)

\* the locals that only the diff applicators use
NoDiffLocals ==
    /\ UNCHANGED <<style, pre, fs0, roundtrip, modified, other, diff, todo, keys,
                   parsed, router>>
    /\ UnifiedLocalsUnchanged
    /\ ConflictLocalsUnchanged

\* the call up to the loop: path is opened for reading and path.tmp is created;
\* a failing open is caught and reported without any cleanup
InsertCall ==
    /\ pc = "call"
    /\ style = "insert"
    /\ IF fs[Path].exists
       THEN /\ input_file' = splitlines(fs[Path].data, TRUE)
            /\ fs' = open_w(fs, tmp_path(Path))
            /\ pc' = "loop"
            /\ UNCHANGED <<raised, result>>
       ELSE /\ raised' = "open"
            /\ result' = "false"
            /\ pc' = "done"
            /\ UNCHANGED <<fs, input_file>>
    /\ insert' = [insert EXCEPT !.inserted = FALSE, !.line_count = 0, !.i = 0]
    /\ NoDiffLocals

\* one iteration of `for line_text in infile` (append mode) or of
\* `for i, line_text in enumerate(infile)` (insertion before line)
InsertStep ==
    /\ pc = "loop"
    /\ style = "insert"
    /\ input_file # <<>>
    /\ IF insert.line # 0 /\ insert.i = insert.line - 1
       THEN /\ fs' = write(fs, tmp_path(Path),
                           insert.content \o Head(input_file))
            /\ insert' = [insert EXCEPT !.inserted = TRUE,
                              !.line_count = insert.line_count + 1,
                              !.i = insert.i + 1]
       ELSE /\ fs' = write(fs, tmp_path(Path), Head(input_file))
            /\ insert' = [insert EXCEPT !.line_count = insert.line_count + 1,
                              !.i = insert.i + 1]
    /\ input_file' = Tail(input_file)
    /\ UNCHANGED <<raised, result, pc>>
    /\ NoDiffLocals

\* the input is exhausted: content is appended in append mode and at EOF+1,
\* the files are closed; without an insertion the call reports the failure
InsertLoopEnd ==
    /\ pc = "loop"
    /\ style = "insert"
    /\ input_file = <<>>
    /\ IF insert.line = 0
          \/ (~insert.inserted /\ insert.line = insert.line_count + 1)
       THEN /\ fs' = write(fs, tmp_path(Path), insert.content)
            /\ insert' = [insert EXCEPT !.inserted = TRUE,
                              !.line_count = insert.line_count
                                             + ContentLineCount(insert.content)]
            /\ pc' = "replace"
            /\ UNCHANGED result
       ELSE /\ UNCHANGED <<fs, insert>>
            /\ pc' = IF insert.inserted THEN "replace" ELSE "done"
            /\ result' = IF insert.inserted THEN result ELSE "false"
    /\ UNCHANGED <<raised, input_file>>
    /\ NoDiffLocals

\* os.replace(tmp_path, path); return success with new_line_count
InsertReplace ==
    /\ pc = "replace"
    /\ style = "insert"
    /\ fs' = os_replace(fs, tmp_path(Path), Path)
    /\ insert' = [insert EXCEPT !.new_line_count = insert.line_count]
    /\ result' = "true"
    /\ pc' = "done"
    /\ UNCHANGED <<raised, input_file>>
    /\ NoDiffLocals

\* the files insert_content is called on: up to MaxFileLen lines, the last one
\* terminated or not
InsertFiles ==
    {Text(DistinctLines(n)) : n \in 0..MaxFileLen}
    \cup {SubSeq(Text(DistinctLines(n)), 1, 2 * n - 1) : n \in 1..MaxFileLen}

\* the contents inserted: empty, one or two lines, the last terminated or not
InsertContents ==
    {<<>>, <<"x">>, <<"x", NL>>, <<"x", NL, "y">>, <<"x", NL, "y", NL>>}

InitInsert ==
    \E f \in InsertFiles, c \in InsertContents, l \in 0..(MaxFileLen + 2),
       here \in BOOLEAN :
        /\ InitLocals(IF here THEN DefaultFS(f)
                      ELSE [DefaultFS(f) EXCEPT ![Path] = NoFile])
        /\ other = NoOtherCall
        /\ insert = [NoInsert EXCEPT !.line = l, !.content = c]
        /\ style = "insert"
        /\ diff = <<>>
        /\ roundtrip = FALSE
        /\ modified = <<>>
        /\ pc = "call"

NextInsert ==
    \/ InsertCall
    \/ InsertStep
    \/ InsertLoopEnd
    \/ InsertReplace

SpecInsert == InitInsert /\ [][NextInsert]_vars

-----------------------------------------------------------------------------
(* TodoListTool (todo_list.py).  A table text is a str as above; the pipe   *)
(* "|" and the escaped pipe "\|" are tokens of their own, every other token *)
(* is a word or a phrase without surrounding white space.                   *)

MaxTries == 3

Pipe == "|"

EscapedPipe == "\\|"

\* index of the first token sep of s, 0 when there is none
FirstIndexOf(s, sep) ==
    IF \E k \in 1..Len(s) : s[k] = sep
    THEN CHOOSE k \in 1..Len(s) : s[k] = sep /\ \A j \in 1..(k - 1) : s[j] # sep
    ELSE 0

RECURSIVE split_re_split(_)
\* split_re.split(ln): the cells between the pipes that are not escaped
split_re_split(ln) ==
    IF FirstIndexOf(ln, Pipe) = 0 THEN <<ln>>
    ELSE <<SubSeq(ln, 1, FirstIndexOf(ln, Pipe) - 1)>>
         \o split_re_split(SubSeq(ln, FirstIndexOf(ln, Pipe) + 1, Len(ln)))

\* "trim empties": an empty first part and an empty last part are dropped
TrimEmpties(parts) ==
    IF parts # <<>> /\ parts[1] = <<>>
    THEN (IF Tail(parts) # <<>> /\ parts[Len(parts)] = <<>>
          THEN SubSeq(parts, 2, Len(parts) - 1) ELSE Tail(parts))
    ELSE IF parts # <<>> /\ parts[Len(parts)] = <<>>
    THEN SubSeq(parts, 1, Len(parts) - 1)
    ELSE parts

\* str.lower() on the words that occur in headers and statuses
lower(t) ==
    CASE t = "ID" -> "id"
      [] t = "Task" -> "task"
      [] t = "Status" -> "status"
      [] t = "Done" -> "done"
      [] OTHER -> t

\* p.replace("\\|", "|") and task.replace("|", "\\|")
Unescape(cell) == [k \in 1..Len(cell) |-> IF cell[k] = EscapedPipe THEN Pipe ELSE cell[k]]

Escape(cell) == [k \in 1..Len(cell) |-> IF cell[k] = Pipe THEN EscapedPipe ELSE cell[k]]

\* the cells of a data line, and the lower-cased cells of the header line
RowParts(ln) ==
    LET cells == split_re_split(ln)
    IN TrimEmpties([k \in 1..Len(cells) |-> Unescape(cells[k])])

HeaderParts(ln) ==
    LET cells == split_re_split(ln)
    IN TrimEmpties([k \in 1..Len(cells) |->
                       [j \in 1..Len(cells[k]) |-> lower(cells[k][j])]])

HasToken(ln, T) == \E k \in 1..Len(ln) : lower(ln[k]) \in T

\* "|" in ln and "id" in ln.lower() and "task" in ln.lower()
IsHeaderLine(ln) ==
    HasToken(ln, {Pipe}) /\ HasToken(ln, {"id"}) /\ HasToken(ln, {"task"})

\* a line with pipes and dashes, or a plain dashed line
IsSeparatorLine(ln) ==
    (HasToken(ln, {Pipe}) /\ HasToken(ln, {"---", "---:"})) \/ ln = <<"---">>

\* first index in S for which P holds is taken by the for loops; 0 if none
MinOrZero(S) == IF S = {} THEN 0 ELSE CHOOSE k \in S : \A j \in S : k <= j

header_idx(all_lines) ==
    MinOrZero({i \in 1..Len(all_lines) : IsHeaderLine(all_lines[i])})

\* range(header_idx + 1, min(len(all_lines), header_idx + 4)); lines that are
\* neither empty nor a separator are passed over
sep_idx(all_lines, h) ==
    MinOrZero({j \in (h + 1)..Min(Len(all_lines), h + 3) :
                  IsSeparatorLine(all_lines[j])})

\* the data lines: from sep_idx + 1 up to an empty line or a line without pipe
RECURSIVE data_lines(_, _)
data_lines(all_lines, k) ==
    IF k > Len(all_lines) THEN <<>>
    ELSE IF all_lines[k] = <<>> \/ ~HasToken(all_lines[k], {Pipe}) THEN <<>>
    ELSE <<all_lines[k]>> \o data_lines(all_lines, k + 1)

\* col_index[key]: the last header cell that names the column (1-based), 0 if
\* the header names no such column
col_index(key, header_parts) ==
    LET names == CASE key = "id" -> {"id", "index"}
                   [] key = "task" -> {"task"}
                   [] key = "status" -> {"status"}
                   [] OTHER -> {"notes", "note"}
        hits == {i \in 1..Len(header_parts) :
                    /\ \E k \in 1..Len(header_parts[i]) : header_parts[i][k] \in names
                    /\ IF key = "id" THEN Len(header_parts[i]) = 1 ELSE TRUE}
    IN IF hits = {} THEN 0 ELSE CHOOSE i \in hits : \A j \in hits : j <= i

MaxColIndex(hp) ==
    Max(Max(col_index("id", hp), col_index("task", hp)),
        Max(col_index("status", hp), col_index("notes", hp)))

\* the normalisation of a status cell
status_norm(status_part) ==
    LET sn == IF status_part = <<>> THEN "" ELSE lower(status_part[1])
    IN IF sn \in {"x", "checked", "yes", "true"} THEN "done"
       ELSE IF sn \in {"todo", "pending", "open", ""} THEN "planned"
       ELSE IF sn \in {"cancel", "canceled", "canc"} THEN "cancelled"
       ELSE sn

allowed_status == {"done", "planned", "cancelled"}

\* int(id_part), None (0 here) when the cell holds no number
id_val(id_part) ==
    IF Len(id_part) = 1 /\ id_part[1] \in Digits THEN StrToInt(id_part[1]) ELSE 0

\* the outcome of parsing one data line under the header cells hp
ParseRow(ln, hp) ==
    LET parts == RowParts(ln)
    IN IF Len(parts) < MaxColIndex(hp)
       THEN [ok |-> FALSE, error |-> <<"Row has fewer columns than header:">> \o ln]
       ELSE IF status_norm(parts[col_index("status", hp)]) \notin allowed_status
       THEN [ok |-> FALSE,
             error |-> <<"Invalid status">> \o parts[col_index("status", hp)]
                       \o <<"in row:">> \o ln]
       ELSE [ok |-> TRUE,
             row |-> [id |-> id_val(parts[col_index("id", hp)]),
                      task |-> parts[col_index("task", hp)],
                      status |-> status_norm(parts[col_index("status", hp)])]]

RECURSIVE ParseRows(_, _, _)
\* `for ln in data_lines`: the rows, or the error of the first line that raises
ParseRows(lns, hp, rows) ==
    IF lns = <<>> THEN [ok |-> TRUE, rows |-> rows]
    ELSE IF ~ParseRow(lns[1], hp).ok
    THEN [ok |-> FALSE, error |-> ParseRow(lns[1], hp).error]
    ELSE ParseRows(Tail(lns), hp, Append(rows, ParseRow(lns[1], hp).row))

\* the part of _parse_markdown_table after the header line h was found
ParseTableAt(all_lines, h) ==
    IF sep_idx(all_lines, h) = 0
    THEN [ok |-> FALSE, error |-> <<"Table separator (---) not found after header">>]
    ELSE IF data_lines(all_lines, sep_idx(all_lines, h) + 1) = <<>>
    THEN [ok |-> TRUE, rows |-> <<>>]
    ELSE IF \E key \in {"id", "task", "status"} :
               col_index(key, HeaderParts(all_lines[h])) = 0
    THEN [ok |-> FALSE,
          error |-> <<"Table header must include at least id, task and status columns">>]
    ELSE ParseRows(data_lines(all_lines, sep_idx(all_lines, h) + 1),
                   HeaderParts(all_lines[h]), <<>>)

\* _parse_markdown_table(table): [ok, rows] or [ok, error] with str(e)
_parse_markdown_table(table) ==
    IF \A k \in 1..Len(table) : table[k] = NL
    THEN [ok |-> FALSE, error |-> <<"Empty table">>]
    ELSE LET all_lines == splitlines(table, FALSE)
         IN IF header_idx(all_lines) = 0
            THEN [ok |-> FALSE,
                  error |-> <<"No table header found (expected a header containing 'id' and 'task')">>]
            ELSE ParseTableAt(all_lines, header_idx(all_lines))

\* one rendered row: f"| {i} | {safe_task} | {status} |"
RenderRow(i, r) ==
    <<Pipe, IntToStr(i), Pipe>> \o Escape(r.task) \o <<Pipe, r.status, Pipe>>

\* _render_table(rows): header, separator and the rows with ids from 1
_render_table(rows) ==
    <<Pipe, "id", Pipe, "task", Pipe, "status", Pipe, NL,
      Pipe, "---:", Pipe, "---", Pipe, "---", Pipe, NL>>
    \o join(<<NL>>, [i \in 1..Len(rows) |-> RenderRow(i, rows[i])])
    \o (IF rows = <<>> THEN <<>> ELSE <<NL>>)

\* faulty variant of _build_prompt: the parse error is left out
BuildPromptWithoutError(user_text, check_str) ==
    <<"todo_prompt", NL, "User input:", NL, user_text, NL>>

\* _build_prompt(user_text, check_str); check_str None is the empty str here
_build_prompt(user_text, check_str) ==
    <<"todo_prompt", NL, "User input:", NL, user_text, NL>>
    \o (IF check_str # <<>>
        THEN <<NL, "Previous parse error:", NL>> \o check_str
             \o <<NL, "Please regenerate a corrected table. Return only the table.", NL>>
        ELSE <<>>)

\* the answers of the llm: tables that parse and tables that do not
TableHeader == <<Pipe, "id", Pipe, "task", Pipe, "status", Pipe, NL>>

TableSeparator == <<Pipe, "---:", Pipe, "---", Pipe, "---", Pipe, NL>>

Row(id, task, status) == <<Pipe, id, Pipe>> \o task \o <<Pipe, status, Pipe, NL>>

Responses ==
    {TableHeader \o TableSeparator \o Row("1", <<"Step A">>, "planned")
        \o Row("2", <<"Step B">>, "done"),
     TableHeader \o TableSeparator \o Row("1", <<"Step A">>, "running")
        \o Row("2", <<"Step B">>, "planned"),
     <<Pipe, "ID", Pipe, "Task", Pipe, "Status", Pipe, NL>> \o TableSeparator
        \o Row("7", <<"a", EscapedPipe, "b">>, "x"),
     TableHeader \o TableSeparator,
     <<>>,
     <<"Here is the plan", NL>>,
     TableHeader \o Row("1", <<"Step A">>, "planned"),
     <<Pipe, "id", Pipe, "task", Pipe, NL>> \o TableSeparator
        \o <<Pipe, "1", Pipe, "Step A", Pipe, NL>>,
     TableHeader \o TableSeparator \o <<Pipe, "1", Pipe, "Step A", Pipe, NL>>}

\* the steps of a file tool leave TodoListTool and APIKeyParser alone, and
\* the other way round
FileToolsUnchanged ==
    /\ UNCHANGED <<fs, fs0, style, diff, pre, roundtrip, modified, raised, pc,
                   result, input_file, other, insert>>
    /\ UnifiedLocalsUnchanged
    /\ ConflictLocalsUnchanged

\* one pass of `for attempt in range(max_try_times)` up to the llm's answer
TodoAsk ==
    /\ todo.pc = "loop"
    /\ todo.attempt < todo.max_try_times
    /\ \E r \in Responses :
          todo' = [todo EXCEPT
                      !.prompts = Append(todo.prompts,
                                         _build_prompt("summary", todo.last_error)),
                      !.last_result = r,
                      !.responses = Append(todo.responses, r),
                      !.pc = "parse"]
    /\ UNCHANGED <<keys, parsed, router>>
    /\ FileToolsUnchanged

\* the answer parses: the normalized rendering is returned
TodoReturn ==
    /\ todo.pc = "parse"
    /\ _parse_markdown_table(todo.last_result).ok
    /\ todo' = [todo EXCEPT
                   !.out = _render_table(_parse_markdown_table(todo.last_result).rows),
                   !.pc = "done"]
    /\ UNCHANGED <<keys, parsed, router>>
    /\ FileToolsUnchanged

\* the answer does not parse: last_error = str(e); continue
TodoRetry ==
    /\ todo.pc = "parse"
    /\ ~_parse_markdown_table(todo.last_result).ok
    /\ todo' = [todo EXCEPT
                   !.last_error = _parse_markdown_table(todo.last_result).error,
                   !.attempt = todo.attempt + 1,
                   !.pc = "loop"]
    /\ UNCHANGED <<keys, parsed, router>>
    /\ FileToolsUnchanged

\* persistent failure: a single-row table encoding the parse error
TodoGiveUp ==
    /\ todo.pc = "loop"
    /\ todo.attempt >= todo.max_try_times
    /\ todo' = [todo EXCEPT
                   !.out = _render_table(
                       <<[id |-> 1,
                          task |-> <<"PARSE ERROR:">>
                                   \o (IF todo.last_error # <<>> THEN todo.last_error
                                       ELSE <<"unknown error">>),
                          status |-> "cancelled"]>>),
                   !.pc = "done"]
    /\ UNCHANGED <<keys, parsed, router>>
    /\ FileToolsUnchanged

\* no file tool is running
NoFileCall ==
    /\ fs = DefaultFS(<<>>)
    /\ fs0 = DefaultFS(<<>>)
    /\ pre = <<>>
    /\ result = "none"
    /\ raised = "none"
    /\ input_file = <<>>
    /\ hunks = <<>>
    /\ hunk_index = 0
    /\ hunk_line_index = 0
    /\ orig_line_num = 1
    /\ conflict_regions = <<>>
    /\ region_index = 0
    /\ line_index = 0
    /\ other = NoOtherCall
    /\ insert = NoInsert
    /\ style = "none"
    /\ diff = <<>>
    /\ roundtrip = FALSE
    /\ modified = <<>>
    /\ pc = "idle"

InitTodo ==
    /\ NoFileCall
    /\ keys = NoKeys
    /\ parsed = NoParsed
    /\ router = NoRouter
    /\ \E n \in 0..MaxTries : todo = [NoTodo EXCEPT !.max_try_times = n, !.pc = "loop"]

NextTodo ==
    \/ TodoAsk
    \/ TodoReturn
    \/ TodoRetry
    \/ TodoGiveUp

SpecTodo == InitTodo /\ [][NextTodo]_vars

-----------------------------------------------------------------------------
(* APIKeyParser (utils/api_key_parser.py).  An api_keys string is a sequence
   of tokens: key fragments, the blank " " and the separator ",". *)

\* longest api_keys string and most get_next_api_key calls explored
MaxKeyStr == 5

MaxCalls == 7

Separator == ","

Blank == " "

KeyTokens == {"k1", "k2", Blank, Separator}

RECURSIVE split(_, _)
\* str.split(separator): the parts between the separators, empty ones included
split(str, sep) ==
    IF \A k \in 1..Len(str) : str[k] # sep THEN <<str>>
    ELSE LET i == CHOOSE k \in 1..Len(str) :
                      str[k] = sep /\ \A j \in 1..(k - 1) : str[j] # sep
         IN  <<SubSeq(str, 1, i - 1)>> \o split(SubSeq(str, i + 1, Len(str)), sep)

RECURSIVE strip(_)
\* str.strip(): without the blanks at both ends
strip(key) ==
    IF key = <<>> THEN key
    ELSE IF Head(key) = Blank THEN strip(Tail(key))
    ELSE IF key[Len(key)] = Blank THEN strip(SubSeq(key, 1, Len(key) - 1))
    ELSE key

\* _is_valid_api_key(key): no whitespace inside, not empty
_is_valid_api_key(key) ==
    IF \E k \in 1..Len(key) : key[k] = Blank THEN FALSE ELSE Len(key) > 0

RECURSIVE _parse_api_keys(_)
\* _parse_api_keys over the parts of the string: strip each, drop the empty
\* and the invalid ones
_parse_api_keys(parts) ==
    IF parts = <<>> THEN <<>>
    ELSE (IF strip(Head(parts)) # <<>> /\ _is_valid_api_key(strip(Head(parts)))
          THEN <<strip(Head(parts))>> ELSE <<>>)
         \o _parse_api_keys(Tail(parts))

\* faulty variant of NextKeyIndex: the index stops at the last key instead of
\* wrapping
NextKeyIndexSaturating(i, n) == IF i + 1 < n THEN i + 1 ELSE i

\* _current_key_index after a call on n keys
NextKeyIndex(i, n) == (i + 1) % n

\* get_next_api_key(): raises ValueError on an empty list (left out: __init__
\* never constructs one), else returns the key under the index and advances
get_next_api_key ==
    /\ keys.api_keys # <<>>
    /\ Len(keys.returned) < MaxCalls
    /\ keys' = [keys EXCEPT
                   !.returned = Append(keys.returned,
                                       keys.api_keys[keys._current_key_index + 1]),
                   !._current_key_index =
                       NextKeyIndex(keys._current_key_index, Len(keys.api_keys))]
    /\ UNCHANGED <<todo, parsed, router>>
    /\ FileToolsUnchanged

\* APIKeyParser(api_keys=str): __init__ raises ValueError for an empty string
\* and for one without a valid key; otherwise the index starts at 0
InitKeys ==
    /\ NoFileCall
    /\ todo = NoTodo
    /\ parsed = NoParsed
    /\ router = NoRouter
    /\ \E str \in SeqsUpTo(KeyTokens, MaxKeyStr) :
          /\ str # <<>>
          /\ _parse_api_keys(split(str, Separator)) # <<>>
          /\ keys = [NoKeys EXCEPT !.api_keys = _parse_api_keys(split(str, Separator))]

NextKeys == get_next_api_key

SpecKeys == InitKeys /\ [][NextKeys]_vars

-----------------------------------------------------------------------------
(* The two parsers called on their own: _parse_unified_diff(diff) and
   _parse_conflict_diff(diff) *)

\* longest conflict diff, in lines
MaxDiffLines == 6

\* unified diffs with lines before the first header and with malformed
\* headers (a header without its "+" part, one whose numbers are no digits)
\* inside a hunk
UnifiedDiffs ==
    {lead \o Header(start, len) \o <<"-", "a", NL>> \o bad
          \o <<"+", "x", NL>> \o tail :
        lead \in {<<>>, <<"-", "-- a/f", NL>>, <<"@@", "1", NL>>},
        start \in 1..MaxFileLen, len \in LenTokens,
        bad \in {<<>>, <<"@@", "1", "1", NL>>, <<"@@", "x", "", "y", "", NL>>},
        tail \in {<<>>, Header(2, "0") \o <<" ", "b", NL>>}}

\* the lines of conflict diffs: markers, separator and content
ConflictLines ==
    {<<"<<<<<<< ", "SEARCH", NL>>, <<"=======", NL>>, <<">>>>>>> ", "REPLACE", NL>>,
     <<"a", NL>>}

\* conflict diffs: every sequence of those lines
ConflictDiffs == {concat(ls) : ls \in SeqsUpTo(ConflictLines, MaxDiffLines)}

ParseFrame ==
    /\ UNCHANGED <<fs, fs0, style, diff, pre, roundtrip, modified, raised, result,
                   input_file, other, insert, todo, keys, router>>
    /\ UnifiedLocalsUnchanged
    /\ ConflictLocalsUnchanged

\* hunks, context = _parse_unified_diff(diff)
ParseUnified ==
    /\ pc = "parse"
    /\ style = "unified"
    /\ parsed' = [parsed EXCEPT !.hunks = _parse_unified_diff(diff).hunks,
                                !.context = _parse_unified_diff(diff).context]
    /\ pc' = "parsed"
    /\ ParseFrame

\* blocks = _parse_conflict_diff(diff)
ParseConflict ==
    /\ pc = "parse"
    /\ style = "conflict"
    /\ parsed' = [parsed EXCEPT !.blocks = _parse_conflict_diff(diff)]
    /\ pc' = "parsed"
    /\ ParseFrame

InitParse ==
    /\ InitFile(<<>>)
    /\ roundtrip = FALSE
    /\ modified = <<>>
    /\ pc = "parse"
    /\ \/ style = "unified" /\ diff \in UnifiedDiffs
       \/ style = "conflict" /\ diff \in ConflictDiffs

NextParse ==
    \/ ParseUnified
    \/ ParseConflict

SpecParse == InitParse /\ [][NextParse]_vars

-----------------------------------------------------------------------------
(* DynamicRouterManager *)

\* faulty variant of EnabledToolsOf: every key of the registry counts as enabled
EnabledToolsOfKnown(tools) == {t \in ToolIds : tools[t] # "absent"}

\* {tool_id for tool_id, tool in tools.items() if tool.enabled}
EnabledToolsOf(tools) == {t \in ToolIds : tools[t] = "on"}

\* _load_config: a config file with a 'tools' key replaces the registry and
\* the enabled set; a file that cannot be read or validated empties both; no
\* file, or a file without 'tools', changes nothing
_load_config(r) ==
    IF r.config.kind = "tools"
    THEN [r EXCEPT !.tools = r.config.tools,
                   !.enabled_tools = EnabledToolsOf(r.config.tools)]
    ELSE IF r.config.kind = "corrupt"
    THEN [r EXCEPT !.tools = NoTools, !.enabled_tools = {}]
    ELSE r

\* _update_tool_registry: made are the discovered tools whose ToolConfig
\* could be created; a known tool keeps its enabled flag, a new one is
\* enabled; the registry becomes new_tools and the enabled set is recomputed
_update_tool_registry(r, made) ==
    LET new_tools == [t \in ToolIds |->
                         IF t \notin made THEN "absent"
                         ELSE IF r.tools[t] # "absent" THEN r.tools[t]
                         ELSE "on"]
    IN [r EXCEPT !.tools = new_tools, !.enabled_tools = EnabledToolsOf(new_tools)]

\* _register_enabled_routers: the routers of enabled tools are included
_register_enabled_routers(r, routers) ==
    [r EXCEPT !.app_routes = r.app_routes \cup (routers \cap r.enabled_tools)]

\* _rebuild_app_routes: the tool routes are dropped and the routers of the
\* enabled tools included again
_rebuild_app_routes(r, routers) ==
    [r EXCEPT !.app_routes = routers \cap r.enabled_tools]

\* _save_config: the registry is written to the config file; a failure is
\* logged and the file stays as it was
_save_config(r, saved) ==
    IF saved THEN [r EXCEPT !.config = [kind |-> "tools", tools |-> r.tools]]
    ELSE r

\* nothing outside the manager changes
RouterFrame ==
    /\ UNCHANGED <<fs, fs0, style, diff, pre, roundtrip, modified, raised, pc, result,
                   input_file, other, insert, todo, keys, parsed>>
    /\ UnifiedLocalsUnchanged
    /\ ConflictLocalsUnchanged

\* initialize(): routers is what discover_routers() finds, made the tools
\* among them that reach the registry
initialize ==
    /\ router.pc = "new"
    /\ \E routers \in SUBSET ToolIds : \E made \in SUBSET routers, saved \in BOOLEAN :
          router' = [_save_config(
                        _register_enabled_routers(
                            _update_tool_registry(_load_config(router), made),
                            routers),
                        saved)
                     EXCEPT !.pc = "ready", !.call = "initialize",
                            !.tool_id = "none", !.returned = "dict"]
    /\ RouterFrame

\* enable_tool(tool_id): found is the outcome of _find_router_by_tool_id (the
\* cache all_routers or a new discovery), included is FALSE when
\* app.include_router raises
enable_tool(tool_id) ==
    /\ router.pc = "ready"
    /\ \E found, included, saved \in BOOLEAN :
          router' =
              IF router.tools[tool_id] = "absent"
              THEN [router EXCEPT !.call = "enable_tool", !.tool_id = tool_id,
                                  !.returned = "false"]
              ELSE IF tool_id \in router.enabled_tools
              THEN [router EXCEPT !.call = "enable_tool", !.tool_id = tool_id,
                                  !.returned = "true"]
              ELSE IF ~found \/ ~included
              THEN [router EXCEPT !.call = "enable_tool", !.tool_id = tool_id,
                                  !.returned = "false"]
              ELSE [_save_config(
                       [router EXCEPT !.app_routes = @ \cup {tool_id},
                                      !.enabled_tools = @ \cup {tool_id},
                                      !.tools[tool_id] = "on"],
                       saved)
                    EXCEPT !.call = "enable_tool", !.tool_id = tool_id,
                           !.returned = "true"]
    /\ RouterFrame

\* disable_tool(tool_id)
disable_tool(tool_id) ==
    /\ router.pc = "ready"
    /\ \E routers \in SUBSET ToolIds, saved \in BOOLEAN :
          router' =
              IF tool_id \notin router.enabled_tools
              THEN [router EXCEPT !.call = "disable_tool", !.tool_id = tool_id,
                                  !.returned = "true"]
              ELSE [_save_config(
                       _rebuild_app_routes(
                           [router EXCEPT !.enabled_tools = @ \ {tool_id},
                                          !.tools[tool_id] =
                                              IF @ = "absent" THEN @ ELSE "off"],
                           routers),
                       saved)
                    EXCEPT !.call = "disable_tool", !.tool_id = tool_id,
                           !.returned = "true"]
    /\ RouterFrame

\* reload_tools()
reload_tools ==
    /\ router.pc = "ready"
    /\ \E routers \in SUBSET ToolIds : \E made \in SUBSET routers, saved \in BOOLEAN :
          router' = [_save_config(
                        _rebuild_app_routes(_update_tool_registry(router, made),
                                            routers),
                        saved)
                     EXCEPT !.call = "reload_tools", !.tool_id = "none",
                            !.returned = "dict"]
    /\ RouterFrame

\* the config file found at start: none, unreadable, without a 'tools' key,
\* or a saved registry
Configs ==
    {[kind |-> k, tools |-> NoTools] : k \in {"none", "corrupt", "notools"}}
    \cup {[kind |-> "tools", tools |-> ts] : ts \in [ToolIds -> {"absent", "on", "off"}]}

InitRouter ==
    /\ NoFileCall
    /\ todo = NoTodo
    /\ keys = NoKeys
    /\ parsed = NoParsed
    /\ \E c \in Configs : router = [NoRouter EXCEPT !.config = c]

NextRouter ==
    \/ initialize
    \/ \E tool_id \in ToolIds : enable_tool(tool_id)
    \/ \E tool_id \in ToolIds : disable_tool(tool_id)
    \/ reload_tools

SpecRouter == InitRouter /\ [][NextRouter]_vars

-----------------------------------------------------------------------------
(* Properties *)

Done == pc = "done"

\* no I/O error was injected into the call (open, write, flush, rename)
NoIOFault == raised \notin {"open", "write", "replace"}

\* the lines of the file before the call and at path now
OrigLines == splitlines(pre, TRUE)

OutLines == splitlines(fs[Path].data, TRUE)

\* the hunk lines of the parsed diff carrying a tag of T
CountTagged(h, T) ==
    Cardinality({i \in 1..Len(h.lines) : h.lines[i] # <<>> /\ h.lines[i][1] \in T})

AllTagged(h, T) == \A i \in 1..Len(h.lines) : h.lines[i] # <<>> /\ h.lines[i][1] \in T

RECURSIVE IsSubsequence(_, _)
\* s can be obtained from t by dropping elements
IsSubsequence(s, t) ==
    IF s = <<>> THEN TRUE
    ELSE IF t = <<>> THEN FALSE
    ELSE IF s[1] = t[1] THEN IsSubsequence(Tail(s), Tail(t))
    ELSE IsSubsequence(s, Tail(t))

\* the hunk's range [orig_start, orig_start + orig_len) lies inside the file
RangeInFile(h) ==
    h.orig_start >= 1 /\ h.orig_start + h.orig_len - 1 <= Len(OrigLines)

\* The diff is one hunk covering the whole file that keeps every line as
\* context but line k, which it deletes and replaces by an added line.
ReplacesLine(k) ==
    /\ Len(hunks) = 1
    /\ Len(OrigLines) >= 2
    /\ hunks[1].orig_start = 1
    /\ hunks[1].orig_len = Len(OrigLines)
    /\ Len(hunks[1].lines) = Len(OrigLines) + 1
    /\ \A i \in 1..(Len(OrigLines) + 1) :
          IF i < k THEN Body(hunks[1].lines[i]) = <<" ">> \o Body(OrigLines[i])
          ELSE IF i = k THEN Body(hunks[1].lines[i]) = <<"-">> \o Body(OrigLines[k])
          ELSE IF i = k + 1 THEN startswith(hunks[1].lines[i], "+")
          ELSE Body(hunks[1].lines[i]) = <<" ">> \o Body(OrigLines[i - 1])

\* the original with line k replaced by the text of the added line
WithLineReplaced(k) ==
    concat([i \in 1..Len(OrigLines) |->
               IF i = k THEN Body(Tail(hunks[1].lines[k + 1])) \o <<NL>>
               ELSE OrigLines[i]])

\* C1: a single hunk covering the file that keeps lines as context and replaces
\* one line ('-' followed by '+') returns true and yields the original with
\* exactly that line replaced; the context lines after it are still present.
\* (The docstring scenario line1/line2/line3 is one of the calls.)
C1_ReplaceOneLine ==
    (Done /\ NoIOFault /\ style = "unified") =>
        \A k \in 1..Len(OrigLines) :
            ReplacesLine(k) =>
                result = "true" /\ fs[Path].data = WithLineReplaced(k)

\* C2: round trip: applying diff_unified(O, M) to a file holding O returns
\* true and leaves exactly M in the file.
C2_RoundTrip ==
    (Done /\ NoIOFault /\ roundtrip) => result = "true" /\ fs[Path].data = modified

\* the blocks the regions were built from, in order
ParsedBlocks == [i \in 1..Len(conflict_regions) |-> conflict_regions[i].block]

\* the lines pat occur in ls at index i
OccursAt(ls, pat, i) ==
    i + Len(pat) - 1 <= Len(ls) /\ \A t \in 1..Len(pat) : ls[i + t - 1] = pat[t]

Occurrences(ls, pat) == {i \in 1..Len(ls) : OccursAt(ls, pat, i)}

\* every block has SEARCH lines, they occur exactly once in the file, and the
\* blocks' occurrences follow one another in block order
RECURSIVE Searchable(_, _, _)
Searchable(ls, blocks, from) ==
    IF blocks = <<>> THEN TRUE
    ELSE /\ blocks[1].incoming_lines # <<>>
         /\ Cardinality(Occurrences(ls, blocks[1].incoming_lines)) = 1
         /\ \A i \in Occurrences(ls, blocks[1].incoming_lines) :
               /\ i >= from
               /\ Searchable(ls, Tail(blocks),
                             i + Len(blocks[1].incoming_lines))

RECURSIVE SearchReplaced(_, _, _)
\* the file lines with each block's SEARCH region replaced by its REPLACE
\* lines, and every other line kept in place
SearchReplaced(ls, blocks, from) ==
    IF blocks = <<>> THEN SubSeq(ls, from, Len(ls))
    ELSE LET i == CHOOSE j \in Occurrences(ls, blocks[1].incoming_lines) : TRUE
         IN SubSeq(ls, from, i - 1) \o blocks[1].current_lines
            \o SearchReplaced(ls, Tail(blocks), i + Len(blocks[1].incoming_lines))

\* C3: replace_by_conflict_diff replaces, block by block, the region of the file
\* whose lines equal the block's SEARCH lines by its REPLACE lines, wherever
\* the region lies, and emits every other file line verbatim and in order.
C3_SearchAndReplace ==
    (Done /\ NoIOFault /\ style = "conflict" /\ conflict_regions # <<>>
          /\ Searchable(OrigLines, ParsedBlocks, 1)) =>
        /\ result = "true"
        /\ OutLines = SearchReplaced(OrigLines, ParsedBlocks, 1)

\* C4: with the file and the diff both holding the conflict block of the
\* docstring, the call returns true and the file becomes the second (current)
\* section alone: 'line1\nline2 changed\n'.
C4_ConflictScenario ==
    (Done /\ NoIOFault /\ style = "conflict" /\ pre = ScenarioConflictText
          /\ diff = ScenarioConflictText) =>
        /\ result = "true"
        /\ fs[Path].data = Text(<<"line1", "line2 changed">>)

\* the diff is one hunk of context and '+' lines whose header states the
\* context lines it covers, inside the file
PureAddition ==
    /\ Len(hunks) = 1
    /\ AllTagged(hunks[1], {" ", "+"})
    /\ CountTagged(hunks[1], {"+"}) >= 1
    /\ hunks[1].orig_len = CountTagged(hunks[1], {" "})
    /\ hunks[1].orig_len >= 1
    /\ RangeInFile(hunks[1])

\* C5: pure addition: a hunk of context and '+' lines makes the line count
\* grow by exactly the number of '+' lines, and every original line is still
\* present, unchanged and in order.
C5_PureAddition ==
    (Done /\ NoIOFault /\ style = "unified" /\ PureAddition) =>
        /\ result = "true"
        /\ Len(OutLines) = Len(OrigLines) + CountTagged(hunks[1], {"+"})
        /\ IsSubsequence(OrigLines, OutLines)

\* the diff's hunks hold context and '-' lines only, each header states the
\* lines its hunk covers, the ranges lie inside the file, ascending and disjoint
PureDeletion ==
    /\ Len(hunks) >= 1
    /\ \A i \in 1..Len(hunks) :
          /\ AllTagged(hunks[i], {" ", "-"})
          /\ hunks[i].orig_len = Len(hunks[i].lines)
          /\ hunks[i].orig_len >= 1
          /\ RangeInFile(hunks[i])
    /\ \A i \in 1..(Len(hunks) - 1) :
          hunks[i].orig_start + hunks[i].orig_len <= hunks[i + 1].orig_start
    /\ \E i \in 1..Len(hunks) : CountTagged(hunks[i], {"-"}) >= 1

RECURSIVE TotalTagged(_, _)
TotalTagged(hs, T) ==
    IF hs = <<>> THEN 0 ELSE CountTagged(hs[1], T) + TotalTagged(Tail(hs), T)

\* C6: pure deletion: hunks of context and '-' lines make the line count
\* shrink by exactly the total number of '-' lines, for one hunk and for
\* several hunks alike.
C6_PureDeletion ==
    (Done /\ NoIOFault /\ style = "unified" /\ PureDeletion) =>
        /\ result = "true"
        /\ Len(OutLines) = Len(OrigLines) - TotalTagged(hunks, {"-"})

\* the diff's only hunk consists solely of context lines
AllContext ==
    /\ Len(hunks) = 1
    /\ Len(hunks[1].lines) >= 1
    /\ AllTagged(hunks[1], {" "})

\* C7: no-op application: a diff whose only hunk is all context lines returns
\* true and leaves the file's lines identical to the original, whatever the
\* context lines' text and whatever orig_start and orig_len.
C7_NoOp ==
    (Done /\ NoIOFault /\ style = "unified" /\ AllContext) =>
        /\ result = "true"
        /\ OutLines = OrigLines
        /\ fs[Path].data = pre

\* an all-context hunk placed after the first line, whose text differs from
\* the file lines it was matched with, has been processed to its end
C7_Witness ==
    /\ Done
    /\ NoIOFault
    /\ style = "unified"
    /\ AllContext
    /\ result = "true"
    /\ hunks[1].orig_start = 2
    /\ Len(hunks[1].lines) >= 2
    /\ hunk_index = 1
    /\ Body(hunks[1].lines[1]) # <<" ">> \o Body(OrigLines[2])

C9_OnlyReplaceChangesPath ==
    [][/\ pc # "done" => fs[Path] = fs0[Path]
       /\ fs'[Path] # fs[Path] =>
             /\ pc = "replace"
             /\ pc' = "done"
             /\ input_file = <<>>
             /\ fs'[Path] = fs[tmp_path(Path)]]_vars

\* a call has returned true with a content at path that differs from the
\* pre-call content
C9_Witness ==
    /\ Done
    /\ result = "true"
    /\ raised = "none"
    /\ fs[Path].data # pre
    /\ ~fs[tmp_path(Path)].exists

\* some hunk of the diff holds a line that starts with none of ' ', '-', '+'
HasInvalidLine ==
    \E i \in 1..Len(hunks) : ~AllTagged(hunks[i], {" ", "-", "+"})

\* C10: for every diff in which some hunk holds a line with an invalid tag,
\* replace_by_unified_diff returns false and leaves the file unchanged,
\* whatever the file's length and the hunk's orig_start and orig_len.
C10_InvalidTagFails ==
    (Done /\ style = "unified" /\ HasInvalidLine) =>
        result = "false" /\ fs[Path] = File(pre)

\* C11: when the file at path does not exist, both functions return false for
\* every diff text and leave neither a file at path nor one at path.tmp.
C11_MissingFileFails ==
    (Done /\ ~fs0[Path].exists) =>
        /\ result = "false"
        /\ ~fs[Path].exists
        /\ ~fs[tmp_path(Path)].exists

\* the diff has no complete block: no opening marker line that is followed by
\* a separator line that is followed by a closing marker line
NoCompleteBlock(lines) ==
    ~\E i \in 1..Len(lines) :
        /\ start_re_match(lines[i])
        /\ \E s \in (i + 1)..Len(lines) :
              /\ sep_re_match(lines[s])
              /\ \E e \in (s + 1)..Len(lines) : end_re_match(lines[e])

\* C12: when the conflict diff yields zero blocks (no opening marker, or an
\* opening marker whose separator or closing marker is missing),
\* replace_by_conflict_diff returns true at once: the file system is as
\* before the call in every state of the call, so no temporary file is created.
C12_ZeroBlocksNoOp ==
    (style = "conflict" /\ NoCompleteBlock(splitlines(diff, TRUE))) =>
        /\ fs = fs0
        /\ pc \in {"call", "done"}
        /\ pc = "done" => result = "true"

\* a call whose diff opens a block and separates it but never closes it has
\* returned
C12_Witness ==
    /\ Done
    /\ style = "conflict"
    /\ result = "true"
    /\ fs0[Path].exists
    /\ NoCompleteBlock(splitlines(diff, TRUE))
    /\ \E i \in 1..Len(splitlines(diff, TRUE)) :
          start_re_match(splitlines(diff, TRUE)[i])
    /\ \E i \in 1..Len(splitlines(diff, TRUE)) :
          sep_re_match(splitlines(diff, TRUE)[i])

\* the lines of the current hunk that the loop has not processed
UnprocessedLines ==
    IF hunk_index < Len(hunks)
    THEN SubSeq(hunks[hunk_index + 1].lines, hunk_line_index + 1,
                Len(hunks[hunk_index + 1].lines))
    ELSE <<>>

\* s ends with t
EndsWithLines(s, t) ==
    Len(t) <= Len(s) /\ SubSeq(s, Len(s) - Len(t) + 1, Len(s)) = t

\* C13: when the file's lines are exhausted while the current hunk still has
\* unprocessed '+' lines (a hunk placed in the file or right after its last
\* line), the call appends those added lines to the output in diff order.
C13_TrailingAdditionsAppended ==
    (Done /\ NoIOFault /\ style = "unified" /\ fs0[Path].exists
          /\ result = "true" /\ UnprocessedLines # <<>>
          /\ hunks[hunk_index + 1].orig_start <= Len(OrigLines) + 1
          /\ \A i \in 1..Len(UnprocessedLines) :
                startswith(UnprocessedLines[i], "+")) =>
        EndsWithLines(OutLines,
                      [i \in 1..Len(UnprocessedLines) |->
                          AddedLine(UnprocessedLines[i])])

\* C14: once a call has returned, on success and on failure, every file
\* other than the one at path that existed before the call is unchanged.
C14_OtherFilesUnchanged ==
    Done => \A p \in Paths \ {Path} : fs0[p].exists => fs[p] = fs0[p]

\* the first call changes nothing when run alone: its diff has no hunk, or
\* one hunk of context lines only, or no complete conflict block
ChangesNothingAlone ==
    IF style = "unified"
    THEN Len(_parse_unified_diff(diff).hunks) = 0
         \/ /\ Len(_parse_unified_diff(diff).hunks) = 1
            /\ AllTagged(_parse_unified_diff(diff).hunks[1], {" "})
    ELSE NoCompleteBlock(splitlines(diff, TRUE))

\* C15: two calls that run at the same time on two different paths do not
\* interfere: under every interleaving of their steps each call returns what
\* it returns when run alone and each file ends as its own call leaves it
\* when run alone.  The second call copies its file, so alone it returns
\* true and leaves its file as it was; so does the first call when its diff
\* changes nothing.
C15_DifferentPathsIndependent ==
    (Done /\ other.pc = "done" /\ raised = "none") =>
        /\ other.result = "true"
        /\ fs[other.path] = fs0[other.path]
        /\ ChangesNothingAlone => (result = "true" /\ fs[Path] = fs0[Path])

\* the same for two paths of which neither is the other's temporary name
IndependentUnlessTmpName ==
    (Done /\ other.pc = "done" /\ raised = "none" /\ other.path = Other) =>
        /\ other.result = "true"
        /\ fs[other.path] = fs0[other.path]
        /\ ChangesNothingAlone => (result = "true" /\ fs[Path] = fs0[Path])

\* C16: on every successful insert_content call the returned new_line_count
\* is the number of lines of the file after the insertion: inserting before
\* an existing line, appending with line = 0, appending with line = N + 1.
C16_NewLineCount ==
    (Done /\ style = "insert" /\ result = "true") =>
        insert.new_line_count = Len(OutLines)

\* t occurs in s as a contiguous run of tokens
Contains(s, t) == \E i \in 1..(Len(s) - Len(t) + 1) : SubSeq(s, i, i + Len(t) - 1) = t

Parses(r) == _parse_markdown_table(r).ok

\* C17: todo_list calls the llm at most max_try_times times and stops at the
\* first response that parses; every retry prompt carries the parse error of
\* the attempt before it; a response that parses is returned as its
\* normalized table; when none of the max_try_times responses parses, the
\* result is a table of exactly one row whose status is 'cancelled' and whose
\* task starts with 'PARSE ERROR:'.
C17_RetryLoop ==
    /\ Len(todo.prompts) <= todo.max_try_times
    /\ Len(todo.prompts) = Len(todo.responses)
    /\ \A i \in 1..Len(todo.responses) :
          Parses(todo.responses[i]) =>
              i = Len(todo.responses) /\ todo.pc \in {"parse", "done"}
    /\ \A i \in 2..Len(todo.prompts) :
          /\ ~Parses(todo.responses[i - 1])
          /\ Contains(todo.prompts[i],
                      _parse_markdown_table(todo.responses[i - 1]).error)
    /\ (todo.pc = "done" /\ todo.responses # <<>>
           /\ Parses(todo.responses[Len(todo.responses)])) =>
          todo.out = _render_table(
              _parse_markdown_table(todo.responses[Len(todo.responses)]).rows)
    /\ (todo.pc = "done"
           /\ \A i \in 1..Len(todo.responses) : ~Parses(todo.responses[i])) =>
          /\ Len(todo.responses) = todo.max_try_times
          /\ Parses(todo.out)
          /\ Len(_parse_markdown_table(todo.out).rows) = 1
          /\ _parse_markdown_table(todo.out).rows[1].status = "cancelled"
          /\ startswith(_parse_markdown_table(todo.out).rows[1].task, "PARSE ERROR:")

\* three answers failed, the last one for a row with an invalid status, and
\* the error table has been returned
C17_Witness ==
    /\ todo.pc = "done"
    /\ todo.max_try_times = 3
    /\ Len(todo.responses) = 3
    /\ \A i \in 1..3 : ~Parses(todo.responses[i])
    /\ Contains(todo.last_error, <<"Invalid status">>)
    /\ Contains(todo.out, <<EscapedPipe>>)

\* C18: get_next_api_key is round-robin: with n >= 1 keys the k-th call
\* (from 0) returns api_keys[k mod n], any n consecutive calls return every
\* entry of api_keys exactly once, and _current_key_index stays in 0..n-1.
C18_RoundRobin ==
    Len(keys.api_keys) >= 1 =>
        /\ \A k \in 0..(Len(keys.returned) - 1) :
              keys.returned[k + 1] = keys.api_keys[(k % Len(keys.api_keys)) + 1]
        /\ \A s \in 1..(Len(keys.returned) - Len(keys.api_keys) + 1) :
              \A j \in 1..Len(keys.api_keys) :
                  Cardinality({i \in s..(s + Len(keys.api_keys) - 1) :
                                   keys.returned[i] = keys.api_keys[j]})
                      = Cardinality({i \in 1..Len(keys.api_keys) :
                                         keys.api_keys[i] = keys.api_keys[j]})
        /\ keys._current_key_index \in 0..(Len(keys.api_keys) - 1)

\* two different keys have been handed out five times: the rotation has
\* wrapped twice
C18_Witness ==
    /\ Len(keys.api_keys) = 2
    /\ keys.api_keys[1] # keys.api_keys[2]
    /\ Len(keys.returned) = 5
    /\ keys._current_key_index = 1

\* C19: at the start of the processing of each original line the cursor
\* orig_line_num equals that line's 1-based position in the original file,
\* also after lines consumed by a deletion tag (checked for diffs without
\* '+' lines, so that only context and deletion steps precede the line).
C19_CursorIsLinePosition ==
    (style = "unified" /\ pc = "loop" /\ input_file # <<>>
          /\ TotalTagged(hunks, {"+"}) = 0) =>
        orig_line_num = Len(OrigLines) - Len(input_file) + 1

\* C20: processing an addition tag consumes no original line: the line under
\* the cursor when the '+' line is processed is still to be handled after
\* the step.
C20_AdditionConsumesNoLine ==
    [][(style = "unified" /\ pc = "loop" /\ input_file # <<>> /\ Branch = "add")
           => input_file' = input_file]_vars

\* the hunks' ranges lie inside the file, ascending and without overlap;
\* every hunk line carries a tag and every header states the lines it covers
AscendingInFile ==
    /\ Len(hunks) >= 1
    /\ \A i \in 1..Len(hunks) :
          /\ RangeInFile(hunks[i])
          /\ AllTagged(hunks[i], {" ", "-", "+"})
          /\ hunks[i].orig_len = CountTagged(hunks[i], {" ", "-"})
    /\ \A i \in 1..(Len(hunks) - 1) :
          hunks[i].orig_start + hunks[i].orig_len <= hunks[i + 1].orig_start

\* C21: for a diff whose hunks have ascending, non-overlapping ranges inside
\* the file, every hunk has become the active hunk and has had all of its
\* lines processed when the call returns true; no hunk, one with orig_len 0
\* included, stays pending and blocks the hunks after it.
C21_EveryHunkProcessed ==
    (Done /\ NoIOFault /\ style = "unified" /\ result = "true" /\ AscendingInFile) =>
        /\ hunk_index >= Len(hunks) - 1
        /\ UnprocessedLines = <<>>

RECURSIVE TotalIncoming(_)
\* T: the sum of the blocks' incoming-line counts
TotalIncoming(blocks) ==
    IF blocks = <<>> THEN 0
    ELSE Len(blocks[1].incoming_lines) + TotalIncoming(Tail(blocks))

RECURSIVE AllCurrentLines(_)
\* current_lines(b1) ++ ... ++ current_lines(bk)
AllCurrentLines(blocks) ==
    IF blocks = <<>> THEN <<>>
    ELSE blocks[1].current_lines \o AllCurrentLines(Tail(blocks))

\* every block has an incoming line and the file has at least T lines
RegionsFitFile ==
    /\ conflict_regions # <<>>
    /\ \A i \in 1..Len(ParsedBlocks) : ParsedBlocks[i].incoming_lines # <<>>
    /\ Len(OrigLines) >= TotalIncoming(ParsedBlocks)

DiffLines == splitlines(diff, TRUE)

HeaderIndices ==
    LET lines == DiffLines
    IN {i \in 1..Len(lines) : hunk_regex_match(lines[i])}

\* the index of the k-th header line; Len(DiffLines) + 1 past the last one
KthHeader(k) ==
    LET H == HeaderIndices
    IN IF k > Cardinality(H) THEN Len(DiffLines) + 1
       ELSE CHOOSE i \in H : Cardinality({j \in H : j < i}) = k - 1

\* the lines strictly between the indices lo and hi, in diff order
LinesBetween(lo, hi) ==
    LET lines == DiffLines
    IN [k \in 1..(hi - lo - 1) |-> strip_line_number_prefix(lines[lo + k])]

Stated(k, pos) ==
    LET written == DiffLines[KthHeader(k)][pos]
    IN IF written = "" THEN 1 ELSE CHOOSE n \in 0..9 : IntToStr(n) = written

\* C24: for every hunk header '@@ -a[,b] +c[,d] @@' the parser sets
\* orig_start = a and new_start = c, sets orig_len = b and new_len = d when
\* the length is written (an explicit 0 stays 0), and sets the length to 1
\* exactly when it is omitted.
C24_HeaderNumbers ==
    (style = "unified" /\ pc = "parsed") =>
        \A k \in 1..Len(parsed.hunks) :
            /\ k <= Cardinality(HeaderIndices)
            /\ parsed.hunks[k].orig_start = Stated(k, 2)
            /\ parsed.hunks[k].orig_len = Stated(k, 3)
            /\ parsed.hunks[k].new_start = Stated(k, 4)
            /\ parsed.hunks[k].new_len = Stated(k, 5)
            /\ (parsed.hunks[k].orig_len = 0) = (DiffLines[KthHeader(k)][3] = "0")

\* a header that writes the length 0 has been parsed
C24_Witness ==
    /\ style = "unified"
    /\ pc = "parsed"
    /\ Len(parsed.hunks) = 1
    /\ DiffLines[KthHeader(1)][2] = "2"
    /\ DiffLines[KthHeader(1)][3] = "0"
    /\ parsed.hunks[1].orig_start = 2
    /\ parsed.hunks[1].orig_len = 0
    /\ parsed.hunks[1].new_len = 0

\* first opening-marker line after index i, 0 if none
FirstStartAfter(lines, i) ==
    IF \E j \in (i + 1)..Len(lines) : start_re_match(lines[j])
    THEN CHOOSE j \in (i + 1)..Len(lines) :
            start_re_match(lines[j]) /\ \A k \in (i + 1)..(j - 1) : ~start_re_match(lines[k])
    ELSE 0

RECURSIVE SpansFrom(_, _, _, _)
\* where the blocks of a result lie in the diff when each opens at the first
\* opening marker after the block before it: o the opening marker, s the
\* separator, e the closing marker
SpansFrom(lines, blocks, k, after) ==
    IF k > Len(blocks) THEN <<>>
    ELSE LET o == FirstStartAfter(lines, after)
             s == o + Len(blocks[k].incoming_lines) + 1
             e == s + Len(blocks[k].current_lines) + 1
         IN <<[o |-> o, s |-> s, e |-> e]>> \o SpansFrom(lines, blocks, k + 1, e)

Unterminated(lines, p) ==
    /\ start_re_match(lines[p])
    /\ \/ \A j \in (p + 1)..Len(lines) : ~sep_re_match(lines[j])
       \/ \E s \in (p + 1)..Len(lines) :
             /\ sep_re_match(lines[s])
             /\ \A j \in (p + 1)..(s - 1) : ~sep_re_match(lines[j])
             /\ \A j \in (s + 1)..Len(lines) : ~end_re_match(lines[j])

\* no block is open where line p starts: a separator and a closing marker put
\* there would complete nothing
NoneOpenBefore(lines, p) ==
    LET before == SubSeq(lines, 1, p - 1)
    IN Len(ParseConflictFrom(before \o <<<<"=======", NL>>, <<">>>>>>> ", "REPLACE", NL>>>>,
                             1, <<>>))
         = Len(ParseConflictFrom(before, 1, <<>>))

\* C26: when the diff ends before the separator or the closing marker of a
\* block that was opened, the result is exactly the blocks completed before
\* that opening marker: the partial block is not in it and nothing is raised.
C26_PartialBlockDropped ==
    (style = "conflict" /\ pc = "parsed") =>
        LET lines == DiffLines
        IN \A p \in 1..Len(lines) :
              (Unterminated(lines, p) /\ NoneOpenBefore(lines, p)) =>
                  parsed.blocks = ParseConflictFrom(SubSeq(lines, 1, p - 1), 1, <<>>)

\* a diff with one complete block and then a block that has its separator
\* but no closing marker has been parsed
C26_Witness ==
    /\ style = "conflict"
    /\ pc = "parsed"
    /\ Len(parsed.blocks) = 1
    /\ LET lines == DiffLines
       IN \E p \in 4..Len(lines) :
             /\ Unterminated(lines, p)
             /\ NoneOpenBefore(lines, p)
             /\ \E j \in (p + 1)..Len(lines) : sep_re_match(lines[j])

\* C27: whenever replace_by_conflict_diff returns true for a diff with at
\* least one parsed block, the current_lines of every parsed block are in the
\* output file, in block order, also for a block without incoming lines and
\* for a file shorter than the blocks' incoming lines in total.
C27_CurrentLinesWritten ==
    (Done /\ NoIOFault /\ style = "conflict" /\ result = "true"
          /\ conflict_regions # <<>>) =>
        IsSubsequence(AllCurrentLines(ParsedBlocks), OutLines)

\* a hunk line with the text of a context or '-' line replaced by t; the tag
\* and the terminator stay
RetextLine(l, t) ==
    IF l[1] \in {" ", "-"}
    THEN <<l[1]>> \o t \o (IF endswith(l, NL) THEN <<NL>> ELSE <<>>)
    ELSE l

\* hunks with the text of every context and '-' line replaced by t
Retext(hs, t) ==
    [k \in 1..Len(hs) |->
        [hs[k] EXCEPT !.lines = [j \in 1..Len(hs[k].lines) |->
                                    RetextLine(hs[k].lines[j], t)]]]

RECURSIVE ApplyHunks(_, _, _, _, _, _)
\* the loop of replace_by_unified_diff as a function of the file's lines and
\* the hunks: ok is FALSE when a hunk line without tag is met, out is what
\* has been written
ApplyHunks(lines, hs, hi, hli, oln, out) ==
    IF lines = <<>> THEN [ok |-> TRUE, out |-> out]
    ELSE LET line == Head(lines)
             has == hi < Len(hs)
             h == hs[hi + 1]
             applies == has /\ InHunkRange(h, oln) /\ hli < Len(h.lines)
             hl == h.lines[hli + 1]
             moved(n) == has /\ n >= Len(h.lines)
             nexthi(n) == IF moved(n) THEN hi + 1 ELSE hi
             nexthli(n) == IF moved(n) /\ hi + 1 < Len(hs) THEN 0 ELSE n
         IN IF ~applies
            THEN ApplyHunks(Tail(lines), hs, nexthi(hli), nexthli(hli), oln + 1,
                            out \o line)
            ELSE IF hl[1] = " "
            THEN ApplyHunks(Tail(lines), hs, nexthi(hli + 1), nexthli(hli + 1),
                            oln + 1, out \o line)
            ELSE IF hl[1] = "-"
            THEN ApplyHunks(Tail(lines), hs, hi, hli + 1, oln, out)
            ELSE IF hl[1] = "+"
            THEN ApplyHunks(Tail(lines), hs, hi, hli + 1, oln, out \o AddedLine(hl))
            ELSE [ok |-> FALSE, out |-> out]

\* texts put in the place of the text of context and '-' lines
OtherTexts == {<<"q">>, <<"a">>, <<>>}

\* C28: the return value and the output file of replace_by_unified_diff are
\* those of every diff that differs from the one given only in the text of
\* its context and '-' lines: that text is never compared with the file.
C28_TextOfContextIgnored ==
    (Done /\ NoIOFault /\ style = "unified") =>
        \A hs \in {hunks} \cup {Retext(hunks, t) : t \in OtherTexts} :
            LET r == ApplyHunks(OrigLines, hs, 0, 0, 1, <<>>)
            IN IF r.ok
               THEN result = "true" /\ fs[Path].data = r.out
               ELSE result = "false" /\ fs[Path].data = pre

\* a call has returned true after a '-' line whose text is no line of the
\* file deleted a line
C28_Witness ==
    /\ Done
    /\ NoIOFault
    /\ style = "unified"
    /\ result = "true"
    /\ Len(OutLines) < Len(OrigLines)
    /\ \E k \in 1..Len(hunks) : \E j \in 1..Len(hunks[k].lines) :
          /\ hunks[k].lines[j][1] = "-"
          /\ \A i \in 1..Len(OrigLines) : Tail(hunks[k].lines[j]) # OrigLines[i]
    /\ \A k \in 1..Len(hunks) : \A j \in 1..Len(hunks[k].lines) :
          hunks[k].lines[j][1] # "+"

\* C29: after an insert_content call that returns success False (a line
\* number outside 0..N+1, or an I/O error), the file at path has its
\* pre-call content and no file is left at path + ".tmp" (none was there
\* before the call).
C29_FailedInsertLeavesNothing ==
    (Done /\ style = "insert" /\ result = "false"
          /\ ~fs0[tmp_path(Path)].exists) =>
        /\ fs[Path] = fs0[Path]
        /\ ~fs[tmp_path(Path)].exists

\* the registry, the enabled set, the app's routes and the config file
ManagerState(r) == <<r.tools, r.enabled_tools, r.app_routes, r.config>>

\* enabled_tools is the set of registry keys whose enabled flag is True
EnabledAgrees ==
    router.pc = "ready" =>
        router.enabled_tools = {t \in ToolIds : router.tools[t] = "on"}

\* the calls that must change nothing, and what they return
NoOpCalls ==
    /\ (router'.call = "enable_tool" /\ router.tools[router'.tool_id] = "absent") =>
          (router'.returned = "false" /\ ManagerState(router') = ManagerState(router))
    /\ (router'.call = "enable_tool" /\ router.tools[router'.tool_id] = "on") =>
          (router'.returned = "true" /\ ManagerState(router') = ManagerState(router))
    /\ (router'.call = "disable_tool" /\ router.tools[router'.tool_id] # "on") =>
          (router'.returned = "true" /\ ManagerState(router') = ManagerState(router))

\* C30: after initialize and after any sequence of enable_tool, disable_tool
\* and reload_tools calls, a tool id is in enabled_tools exactly when it is a
\* key of tool_registry.tools whose enabled flag is True; enable_tool on an id
\* that is not in the registry returns False and changes nothing; enable_tool
\* and disable_tool on a tool already in the requested state return True and
\* change nothing.
C30_EnabledSetIsRegistry == []EnabledAgrees /\ [][NoOpCalls]_vars

\* enable_tool has just returned False for an id that is not in the registry
\* while one tool of the registry is enabled and another is disabled
C30_Witness ==
    /\ router.pc = "ready"
    /\ router.call = "enable_tool"
    /\ router.returned = "false"
    /\ router.tools[router.tool_id] = "absent"
    /\ \E t \in ToolIds : router.tools[t] = "on" /\ t \in router.enabled_tools
    /\ \E t \in ToolIds : router.tools[t] = "off" /\ t \notin router.enabled_tools

====
